---- MODULE Spec2Model ----
(***************************************************************************)
(* Model of react-sdk-manager: the plugin registry (PluginManager), the    *)
(* coordinator (SDKManager) and the parts of the hook bus and the store    *)
(* that the coordinator's lifecycle touches.                               *)
(*                                                                         *)
(* Every public call is one atomic action (calls do not overlap here).     *)
(* A plugin's initialize/destroy callback is an input of the call: it      *)
(* either returns or throws.  A descriptor always carries both callbacks;  *)
(* dependencies are a set (the code only tests membership / iterates to    *)
(* find any offending element).                                            *)
(*                                                                         *)
(* The store (StateManager) and the hook bus (LifecycleManager) are        *)
(* synchronous: a call runs its listeners and callbacks, and whatever they *)
(* call in turn, before it returns.  A listener or callback is one of a    *)
(* few behaviours (return, throw, add a listener, remove a listener).      *)
(* A JavaScript Set is a sequence in insertion order.                      *)
(***************************************************************************)
EXTENDS Integers, Sequences, FiniteSets, TLC

\* plugin names used by the model
Names == {"A", "B"}

\* src/src/core/LifecycleManager.ts:136-143
HookTypes == {"beforeMount", "afterMount", "beforeUnmount", "afterUnmount", "stateChange", "error"}

\* callbacks installed by the SDKManager constructor
ErrorLogger == "errorLogger"
StateChangeForwarder == "stateChangeForwarder"

VARIABLES
  plugins,          \* PluginManager.plugins: Map in insertion order, as a sequence of descriptors
  dependencyGraph,  \* PluginManager.dependencyGraph: name -> set of dependents
  isInitialized,    \* SDKManager.isInitialized
  isDestroyed,      \* SDKManager.isDestroyed
  config,           \* SDKManager.config.plugins
  hooks,            \* LifecycleManager.hooks: hook -> Set of callbacks, in insertion order
  listeners,        \* StateManager.listeners: Set of listeners, in insertion order
  state,            \* StateManager.state: the current object, [ref, value]
  storage,          \* localStorage item under config.persistKey
  persist,          \* StateManager.config.persist
  closures,         \* the unsubscribe closures the user holds, each with whether it was invoked
  tasks,            \* the asynchronous calls that were started and not yet collected, suspended ones in queue order
  last              \* observation of the latest call: what was called, its outcome, the callbacks and hooks it ran

vars == <<plugins, dependencyGraph, isInitialized, isDestroyed, config, hooks, listeners,
          state, storage, persist, closures, tasks, last>>

----------------------------------------------------------------------------
\* Descriptors

Plugin(name, enabled, dependencies) ==
  [name |-> name, enabled |-> enabled, dependencies |-> dependencies]

Descriptors == {Plugin(n, e, d) : n \in Names, e \in BOOLEAN, d \in SUBSET Names}

\* argument record of a call that takes only a name (or nothing)
Arg(name) == Plugin(name, FALSE, {})

\* the configured plugin lists a coordinator is constructed with
Configs ==
  { <<>>,
    <<Plugin("A", TRUE, {})>>,
    <<Plugin("A", TRUE, {}), Plugin("B", TRUE, {"A"})>> }

----------------------------------------------------------------------------
\* Map helpers (plugins is a Map<string, Plugin>)

has(ps, name) == \E i \in 1..Len(ps) : ps[i].name = name

get(ps, name) == ps[CHOOSE i \in 1..Len(ps) : ps[i].name = name]

delete(ps, name) == SelectSeq(ps, LAMBDA p : p.name # name)

setEnabled(ps, name, flag) ==
  [i \in 1..Len(ps) |-> IF ps[i].name = name THEN [ps[i] EXCEPT !.enabled = flag] ELSE ps[i]]

registered(ps) == {ps[i].name : i \in 1..Len(ps)}

\* the error a plugin callback throws
CallbackError == "CALLBACK_ERROR"

\* outcome of a registry call on the registry reg = [plugins, graph]: the registry it leaves,
\* "OK" or the code of the SDKError thrown to the caller, the code of the error that
\* SDKError wraps (its details), and the plugin callbacks invoked, in order
Outcome(ps, graph, code, cause, calls) ==
  [plugins |-> ps, graph |-> graph, code |-> code, cause |-> cause, calls |-> calls]

----------------------------------------------------------------------------
\* PluginManager (src/src/core/PluginManager.ts)

\* getDependents: Array.from(this.dependencyGraph.get(pluginName) || [])
getDependents(graph, pluginName) ==
  IF pluginName \in DOMAIN graph THEN graph[pluginName] ELSE {}

\* updateDependencyGraph: add plugin.name to the dependents set of each dependency
updateDependencyGraph(graph, plugin) ==
  [d \in (DOMAIN graph) \cup plugin.dependencies |->
      (IF d \in DOMAIN graph THEN graph[d] ELSE {})
        \cup (IF d \in plugin.dependencies THEN {plugin.name} ELSE {})]

\* this.dependencyGraph.delete(name)
graphDelete(graph, name) == [d \in (DOMAIN graph) \ {name} |-> graph[d]]

\* hasCycle: depth-first search with a visited set and a recursion stack.
\* st = [visited, stack, found]
RECURSIVE hasCycle(_, _, _, _)
RECURSIVE hasCycleDeps(_, _, _, _)
hasCycle(ps, plugin, pluginName, st) ==
  LET st1 == [visited |-> st.visited \cup {pluginName},
              stack   |-> st.stack \cup {pluginName},
              found   |-> FALSE]
      pluginDeps == IF pluginName = plugin.name THEN plugin.dependencies
                    ELSE IF has(ps, pluginName) THEN get(ps, pluginName).dependencies
                    ELSE {}
      r == hasCycleDeps(ps, plugin, pluginDeps, st1)
  IN  IF r.found THEN r ELSE [r EXCEPT !.stack = @ \ {pluginName}]

hasCycleDeps(ps, plugin, deps, st) ==
  IF deps = {} THEN st
  ELSE LET dep == CHOOSE d \in deps : TRUE
       IN  IF dep \notin st.visited
             THEN LET r == hasCycle(ps, plugin, dep, st)
                  IN  IF r.found THEN r ELSE hasCycleDeps(ps, plugin, deps \ {dep}, r)
           ELSE IF dep \in st.stack THEN [st EXCEPT !.found = TRUE]
           ELSE hasCycleDeps(ps, plugin, deps \ {dep}, st)

\* faulty variant: the lookup of the declared dependencies is skipped
validateDependencies_noLookup(ps, plugin) ==
  IF hasCycle(ps, plugin, plugin.name, [visited |-> {}, stack |-> {}, found |-> FALSE]).found
    THEN "CIRCULAR_DEPENDENCY"
  ELSE "OK"

\* validateDependencies: "OK", or the code of the SDKError it throws
validateDependencies(ps, plugin) ==
  IF \E dep \in plugin.dependencies : ~has(ps, dep) THEN "DEPENDENCY_NOT_FOUND"
  ELSE IF hasCycle(ps, plugin, plugin.name, [visited |-> {}, stack |-> {}, found |-> FALSE]).found
    THEN "CIRCULAR_DEPENDENCY"
  ELSE "OK"

\* register(plugin); initFails: plugin.initialize() throws
register(reg, plugin, initFails) ==
  IF has(reg.plugins, plugin.name)
    THEN Outcome(reg.plugins, reg.graph, "PLUGIN_REGISTRATION_FAILED", "PLUGIN_ALREADY_EXISTS", <<>>)
  ELSE IF validateDependencies(reg.plugins, plugin) # "OK"
    THEN Outcome(reg.plugins, reg.graph, "PLUGIN_REGISTRATION_FAILED",
                 validateDependencies(reg.plugins, plugin), <<>>)
  ELSE LET ps    == Append(reg.plugins, plugin)
           graph == updateDependencyGraph(reg.graph, plugin)
       IN  IF plugin.enabled
             THEN IF initFails
                    THEN Outcome(ps, graph, "PLUGIN_REGISTRATION_FAILED", CallbackError,
                                 << <<"initialize", plugin.name>> >>)
                    ELSE Outcome(ps, graph, "OK", "none", << <<"initialize", plugin.name>> >>)
             ELSE Outcome(ps, graph, "OK", "none", <<>>)

\* the dependents check of disable: getDependents(name) filtered to registered, enabled plugins
enabledDependents(reg, name) ==
  {dep \in getDependents(reg.graph, name) : has(reg.plugins, dep) /\ get(reg.plugins, dep).enabled}

\* faulty variant: unregister is blocked by enabled dependents only
unregister_enabledDependentsOnly(reg, name, destroyFails) ==
  IF ~has(reg.plugins, name)
    THEN Outcome(reg.plugins, reg.graph, "PLUGIN_NOT_FOUND", "none", <<>>)
  ELSE IF enabledDependents(reg, name) # {}
    THEN Outcome(reg.plugins, reg.graph, "PLUGIN_UNREGISTRATION_FAILED", "PLUGIN_HAS_DEPENDENTS", <<>>)
  ELSE IF get(reg.plugins, name).enabled
    THEN IF destroyFails
           THEN Outcome(reg.plugins, reg.graph, "PLUGIN_UNREGISTRATION_FAILED", CallbackError,
                        << <<"destroy", name>> >>)
           ELSE Outcome(delete(reg.plugins, name), graphDelete(reg.graph, name), "OK", "none",
                        << <<"destroy", name>> >>)
  ELSE Outcome(delete(reg.plugins, name), graphDelete(reg.graph, name), "OK", "none", <<>>)

\* unregister(name); destroyFails: plugin.destroy() throws
unregister(reg, name, destroyFails) ==
  IF ~has(reg.plugins, name)
    THEN Outcome(reg.plugins, reg.graph, "PLUGIN_NOT_FOUND", "none", <<>>)
  ELSE IF getDependents(reg.graph, name) # {}
    THEN Outcome(reg.plugins, reg.graph, "PLUGIN_UNREGISTRATION_FAILED", "PLUGIN_HAS_DEPENDENTS", <<>>)
  ELSE IF get(reg.plugins, name).enabled
    THEN IF destroyFails
           THEN Outcome(reg.plugins, reg.graph, "PLUGIN_UNREGISTRATION_FAILED", CallbackError,
                        << <<"destroy", name>> >>)
           ELSE Outcome(delete(reg.plugins, name), graphDelete(reg.graph, name), "OK", "none",
                        << <<"destroy", name>> >>)
  ELSE Outcome(delete(reg.plugins, name), graphDelete(reg.graph, name), "OK", "none", <<>>)

\* faulty variant: a dependency only has to be registered
dependenciesEnabled_registeredOnly(ps, plugin) ==
  \A dep \in plugin.dependencies : has(ps, dep)

\* the dependency check of enable: every declared dependency is registered and enabled
dependenciesEnabled(ps, plugin) ==
  \A dep \in plugin.dependencies : has(ps, dep) /\ get(ps, dep).enabled

\* faulty variant: the enabled flag is set before plugin.initialize() is awaited
enable_flagFirst(reg, name, initFails) ==
  IF ~has(reg.plugins, name)
    THEN Outcome(reg.plugins, reg.graph, "PLUGIN_NOT_FOUND", "none", <<>>)
  ELSE IF get(reg.plugins, name).enabled
    THEN Outcome(reg.plugins, reg.graph, "OK", "none", <<>>)
  ELSE IF ~dependenciesEnabled(reg.plugins, get(reg.plugins, name))
    THEN Outcome(reg.plugins, reg.graph, "PLUGIN_ENABLE_FAILED", "DEPENDENCY_NOT_ENABLED", <<>>)
  ELSE IF initFails
    THEN Outcome(setEnabled(reg.plugins, name, TRUE), reg.graph, "PLUGIN_ENABLE_FAILED",
                 CallbackError, << <<"initialize", name>> >>)
  ELSE Outcome(setEnabled(reg.plugins, name, TRUE), reg.graph, "OK", "none",
               << <<"initialize", name>> >>)

\* enable(name); initFails: plugin.initialize() throws
enable(reg, name, initFails) ==
  IF ~has(reg.plugins, name)
    THEN Outcome(reg.plugins, reg.graph, "PLUGIN_NOT_FOUND", "none", <<>>)
  ELSE IF get(reg.plugins, name).enabled
    THEN Outcome(reg.plugins, reg.graph, "OK", "none", <<>>)
  ELSE IF ~dependenciesEnabled(reg.plugins, get(reg.plugins, name))
    THEN Outcome(reg.plugins, reg.graph, "PLUGIN_ENABLE_FAILED", "DEPENDENCY_NOT_ENABLED", <<>>)
  ELSE IF initFails
    THEN Outcome(reg.plugins, reg.graph, "PLUGIN_ENABLE_FAILED", CallbackError,
                 << <<"initialize", name>> >>)
  ELSE Outcome(setEnabled(reg.plugins, name, TRUE), reg.graph, "OK", "none",
               << <<"initialize", name>> >>)

\* faulty variant: no early return for a plugin that is already disabled
disable_noEarlyReturn(reg, name, destroyFails) ==
  IF ~has(reg.plugins, name)
    THEN Outcome(reg.plugins, reg.graph, "PLUGIN_NOT_FOUND", "none", <<>>)
  ELSE IF enabledDependents(reg, name) # {}
    THEN Outcome(reg.plugins, reg.graph, "PLUGIN_DISABLE_FAILED", "PLUGIN_HAS_ENABLED_DEPENDENTS", <<>>)
  ELSE IF destroyFails
    THEN Outcome(reg.plugins, reg.graph, "PLUGIN_DISABLE_FAILED", CallbackError,
                 << <<"destroy", name>> >>)
  ELSE Outcome(setEnabled(reg.plugins, name, FALSE), reg.graph, "OK", "none",
               << <<"destroy", name>> >>)

\* disable(name); destroyFails: plugin.destroy() throws
disable(reg, name, destroyFails) ==
  IF ~has(reg.plugins, name)
    THEN Outcome(reg.plugins, reg.graph, "PLUGIN_NOT_FOUND", "none", <<>>)
  ELSE IF ~get(reg.plugins, name).enabled
    THEN Outcome(reg.plugins, reg.graph, "OK", "none", <<>>)
  ELSE IF enabledDependents(reg, name) # {}
    THEN Outcome(reg.plugins, reg.graph, "PLUGIN_DISABLE_FAILED", "PLUGIN_HAS_ENABLED_DEPENDENTS", <<>>)
  ELSE IF destroyFails
    THEN Outcome(reg.plugins, reg.graph, "PLUGIN_DISABLE_FAILED", CallbackError,
                 << <<"destroy", name>> >>)
  ELSE Outcome(setEnabled(reg.plugins, name, FALSE), reg.graph, "OK", "none",
               << <<"destroy", name>> >>)

----------------------------------------------------------------------------
\* Set helpers (a JavaScript Set keeps insertion order; while it is being
\* iterated a deleted entry leaves an empty slot and an added entry is appended)

Empty == "<empty>"

setHas(set, x) == \E i \in 1..Len(set) : set[i] = x

\* Set.prototype.add
setAdd(set, x) == IF setHas(set, x) THEN set ELSE Append(set, x)

\* Set.prototype.delete
setDelete(set, x) == [i \in 1..Len(set) |-> IF set[i] = x THEN Empty ELSE set[i]]

\* Set.prototype.clear
setClear(set) == [i \in 1..Len(set) |-> Empty]

\* the entries of the Set once no iteration is in progress
setEntries(set) == SelectSeq(set, LAMBDA x : x # Empty)

----------------------------------------------------------------------------
\* LifecycleManager (src/src/core/LifecycleManager.ts)

\* initializeHooks: every hook type gets a set unless it already has one
initializeHooks(hks) ==
  [h \in (DOMAIN hks) \cup HookTypes |-> IF h \in DOMAIN hks THEN hks[h] ELSE <<>>]

\* on(hook, callback)
on(hks, hook, callback) ==
  [h \in (DOMAIN hks) \cup {hook} |->
      IF h = hook THEN setAdd(IF h \in DOMAIN hks THEN hks[h] ELSE <<>>, callback) ELSE hks[h]]

\* clear(): this.hooks.clear(); this.initializeHooks()
clearAll(hks) == initializeHooks([h \in {} |-> <<>>])


\* off(hook, callback)
off(hks, hook, callback) ==
  [h \in DOMAIN hks |-> IF h = hook THEN setEntries(setDelete(hks[h], callback)) ELSE hks[h]]

\* clear(hook): this.hooks.delete(hook)
clearHook(hks, hook) == [h \in (DOMAIN hks) \ {hook} |-> hks[h]]

----------------------------------------------------------------------------
\* StateManager (src/src/core/StateManager.ts)

\* keys and values of the state objects of the model
Keys == {"count", "extra"}
Vals == {"0", "1"}
Undefined == "undefined"

\* config.initialState: the object { count: 0 }
InitialState == [ref |-> 0, value |-> [k \in {"count"} |-> "0"]]

\* an object identity that differs from the initial object's and from ref
freshRef(ref) == IF ref = 1 THEN 2 ELSE 1

\* object spread { ...a, ...b }
Spread(a, b) == [k \in (DOMAIN a) \cup (DOMAIN b) |-> IF k \in DOMAIN b THEN b[k] ELSE a[k]]

\* localStorage items: none, a string that is not JSON, or the JSON text of an object
NoItem == [tag |-> "none", text |-> [k \in {} |-> "0"]]
Garbage == [tag |-> "garbage", text |-> [k \in {} |-> "0"]]

\* JSON.stringify of an object: properties whose value is undefined are left out
JSONstringify(value) ==
  [tag |-> "json", text |-> [k \in {j \in DOMAIN value : value[j] # Undefined} |-> value[k]]]

\* getPersistedState: the parsed item, or "null" (no item, or JSON.parse throws)
getPersistedState(item) ==
  IF item.tag = "json" THEN [null |-> FALSE, value |-> item.text]
  ELSE [null |-> TRUE, value |-> item.text]

\* loadInitialState
loadInitialState(persistFlag, item) ==
  IF persistFlag /\ ~getPersistedState(item).null
    THEN [ref |-> 1, value |-> Spread(InitialState.value, getPersistedState(item).value)]
    ELSE InitialState

\* the updater functions passed to setState by the model
Updaters == {"identity", "copy", "replace"}

applyUpdater(fn, prev) ==
  IF fn = "identity" THEN prev
  ELSE IF fn = "copy" THEN [ref |-> freshRef(prev.ref), value |-> prev.value]
  ELSE [ref |-> freshRef(prev.ref), value |-> [k \in {"count"} |-> "1"]]

----------------------------------------------------------------------------
\* Running a synchronous call.  w = [state, listeners, hooks, storage, persist, log]
\* is the store and the bus while the call runs; log lists, in order, what it did:
\*   <<"notify", listener, state, prevState>>  a store listener is invoked
\*   <<"emit", hook, args>>                    emit(hook, ...args) is called
\*   <<"call", hook, callback>>                a hook callback is invoked
\*   <<"setItem", item>>, <<"removeItem">>     localStorage is written

World == [state |-> state, listeners |-> listeners, hooks |-> hooks,
          storage |-> storage, persist |-> persist, log |-> <<>>]

Log(w, entry) == [w EXCEPT !.log = Append(@, entry)]

\* the user's hook callbacks, by what they do when invoked: return, throw, return a
\* promise that rejects, register Late for the hook, remove "plain" from the hook (off, or
\* the closure on() returned), clear the hook
Callbacks == {"plain", "thrower", "rejecter", "adder", "remover", "clearer"}

\* a callback that returns a promise which is fulfilled later, after a timer
Slow == "slow"
Late == "late"

\* the value a rejecting callback's promise rejects with
Rejection == "REJECTION"

\* a hook callback runs: the world it leaves, how it ended and the error it ended with
callCallback(w, hook, callback) ==
  IF callback = "thrower" THEN [w |-> w, outcome |-> "threw", error |-> CallbackError]
  ELSE IF callback = "rejecter" THEN [w |-> w, outcome |-> "rejected", error |-> Rejection]
  ELSE IF callback = Slow THEN [w |-> w, outcome |-> "pending", error |-> "none"]
  ELSE IF callback = "adder"
    THEN [w |-> [w EXCEPT !.hooks = on(@, hook, Late)], outcome |-> "returned", error |-> "none"]
  ELSE IF callback = "remover"
    THEN [w |-> [w EXCEPT !.hooks = off(@, hook, "plain")], outcome |-> "returned", error |-> "none"]
  ELSE IF callback = "clearer"
    THEN [w |-> [w EXCEPT !.hooks = clearHook(@, hook)], outcome |-> "returned", error |-> "none"]
  ELSE [w |-> w, outcome |-> "returned", error |-> "none"]

\* this.hooks.get(hook), or no callbacks when the hook has no Set
callbacksOf(w, hook) == IF hook \in DOMAIN w.hooks THEN w.hooks[hook] ELSE <<>>

\* faulty variant: the Set itself is iterated
iterated_live(w, hook, callbackArray) == callbacksOf(w, hook)

\* what forEach iterates: callbackArray, the copy Array.from(callbacks) made when the
\* emission started
iterated(w, hook, callbackArray) == callbackArray

\* faulty variant: a callback that throws ends the iteration
caught_never(outcome) == outcome # "threw"

\* the try/catch is inside the loop body: the iteration goes on after any callback
caught(outcome) == TRUE

\* faulty variant: nothing is routed to the 'error' hook
routesToError_never(hook) == FALSE

\* the catch block emits 'error' unless the failing callback is one of the 'error' hook
routesToError(hook) == hook # "error"

\* emit(hook, ...args): the callbacks are invoked in order; a callback that throws makes
\* emit('error', error, hook) run before the next callback.  A promise a callback returns
\* is not looked at.
RECURSIVE emit(_, _, _)
RECURSIVE emitEach(_, _, _, _)
emit(w, hook, args) ==
  emitEach(Log(w, <<"emit", hook, args, "sync">>), hook, callbacksOf(w, hook), 1)

emitEach(w, hook, callbackArray, i) ==
  IF i > Len(iterated(w, hook, callbackArray)) THEN w
  ELSE LET callback == iterated(w, hook, callbackArray)[i]
           r == callCallback(Log(w, <<"call", hook, callback>>), hook, callback)
           w1 == IF r.outcome = "threw" /\ routesToError(hook)
                   THEN emit(r.w, "error", <<r.error, hook>>)
                   ELSE r.w
       IN  IF caught(r.outcome) THEN emitEach(w1, hook, callbackArray, i + 1) ELSE w1

\* faulty variant: the async wrapper has no catch, a failing callback rejects its promise
wrapperSettles_noCatch(outcome) ==
  IF outcome \in {"threw", "rejected"} THEN "rejected" ELSE "fulfilled"

\* the promise of the async wrapper around a callback: its catch block swallows what the
\* callback throws or rejects with, so it is always fulfilled
wrapperSettles(outcome) == "fulfilled"

\* faulty variant: the next callback is started once the one before it has settled
startsNext_afterSettled(outcome) == outcome # "pending"

\* callbackArray.map(async callback => ...) calls the wrappers one after the other without
\* awaiting the promise any of them returns
startsNext(outcome) == TRUE

\* emitAsync(hook, ...args), callbackArray.map: every callback is started in order, and one
\* that throws is caught at once.  started lists the callbacks with how they ended.
RECURSIVE emitAsyncStart(_, _, _, _, _)
emitAsyncStart(w, hook, callbackArray, i, started) ==
  IF i > Len(iterated(w, hook, callbackArray)) THEN [w |-> w, started |-> started]
  ELSE LET callback == iterated(w, hook, callbackArray)[i]
           r == callCallback(Log(w, <<"call", hook, callback>>), hook, callback)
           w1 == IF r.outcome = "threw" /\ routesToError(hook)
                   THEN emit(r.w, "error", <<r.error, hook>>)
                   ELSE r.w
           entry == [callback |-> callback, outcome |-> r.outcome, error |-> r.error]
       IN  IF caught(r.outcome) /\ startsNext(r.outcome)
             THEN emitAsyncStart(w1, hook, callbackArray, i + 1, Append(started, entry))
             ELSE [w |-> w1, started |-> Append(started, entry)]

\* the order in which the wrappers settle: those whose callback returned, threw or
\* rejected settle in the microtasks that follow, in order; the pending ones afterwards
settleOrder(started) ==
  SelectSeq(started, LAMBDA e : e.outcome # "pending")
    \o SelectSeq(started, LAMBDA e : e.outcome = "pending")

\* await Promise.all(promises): the wrappers settle one by one (a rejection is caught and
\* emitted on 'error' when it settles); Promise.all rejects with the first wrapper that
\* rejects and resolves when the last one is fulfilled.  done: Promise.all has settled.
RECURSIVE emitAsyncSettle(_, _, _, _, _)
emitAsyncSettle(w, hook, order, i, done) ==
  IF i > Len(order)
    THEN IF done THEN w ELSE Log(w, <<"completed", hook, "resolved">>)
  ELSE LET w1 == IF order[i].outcome = "rejected" /\ routesToError(hook)
                   THEN emit(w, "error", <<order[i].error, hook>>)
                   ELSE w
           w2 == Log(w1, <<"settled", hook, order[i].callback>>)
       IN  IF ~done /\ wrapperSettles(order[i].outcome) = "rejected"
             THEN emitAsyncSettle(Log(w2, <<"completed", hook, "rejected">>),
                                  hook, order, i + 1, TRUE)
             ELSE emitAsyncSettle(w2, hook, order, i + 1, done)

\* emitAsync(hook, ...args), up to the moment every callback it started has settled
emitAsync(w, hook, args) ==
  LET s == emitAsyncStart(Log(w, <<"emit", hook, args, "async">>), hook,
                          callbacksOf(w, hook), 1, <<>>)
  IN  emitAsyncSettle(s.w, hook, settleOrder(s.started), 1, FALSE)

\* how the promise emitAsync returned settled: "OK", or the code it rejected with
completionOf(log, hook) ==
  IF \E i \in 1..Len(log) : log[i] = <<"completed", hook, "rejected">>
    THEN "EMIT_REJECTED" ELSE "OK"

\* subscribe(listener)
subscribe(w, listener) == [w EXCEPT !.listeners = setAdd(@, listener)]

\* the closure subscribe returns
unsubscribe(w, listener) == [w EXCEPT !.listeners = setDelete(@, listener)]

\* clearListeners()
clearListeners(w) == [w EXCEPT !.listeners = setClear(@)]

\* the listener that writes back: state => { if (state.count !== 1) setState({ count: 1 }) }
Setter == "setter"

\* a store listener runs (what it throws is caught and logged by notifyListeners)
RECURSIVE setState(_, _)
callListener(w, listener, newState, prevState) ==
  IF listener = StateChangeForwarder THEN emit(w, "stateChange", <<newState, prevState>>)
  ELSE IF listener = "adder" THEN subscribe(w, Late)
  ELSE IF listener = "remover" THEN unsubscribe(w, "plain")
  ELSE IF listener = Setter
    THEN IF "count" \in DOMAIN newState.value /\ newState.value["count"] = "1"
           THEN w
           ELSE setState(w, [kind |-> "partial", fn |-> "-", partial |-> [k \in {"count"} |-> "1"]])
  ELSE w

\* notifyListeners: this.listeners.forEach over the live Set, from slot i on
RECURSIVE notifyListeners(_, _, _, _)
notifyListeners(w, newState, prevState, i) ==
  IF i > Len(w.listeners) THEN w
  ELSE IF w.listeners[i] = Empty THEN notifyListeners(w, newState, prevState, i + 1)
  ELSE notifyListeners(
         callListener(Log(w, <<"notify", w.listeners[i], newState, prevState>>),
                      w.listeners[i], newState, prevState),
         newState, prevState, i + 1)

\* persistState
persistState(w) ==
  Log([w EXCEPT !.storage = JSONstringify(w.state.value)],
      <<"setItem", JSONstringify(w.state.value)>>)

\* clearPersistedState
clearPersistedState(w) == Log([w EXCEPT !.storage = NoItem], <<"removeItem">>)

\* faulty variant: listeners are notified and the value is persisted whatever the updater returns
setState_alwaysNotify(w, newState) ==
  LET prevState == w.state
      next == IF newState.kind = "function"
                THEN applyUpdater(newState.fn, prevState)
                ELSE [ref |-> freshRef(prevState.ref),
                      value |-> Spread(prevState.value, newState.partial)]
      w2 == notifyListeners([w EXCEPT !.state = next], next, prevState, 1)
  IN  IF w2.persist THEN persistState(w2) ELSE w2

\* setState(newState): newState is [kind |-> "function", fn] or [kind |-> "partial", partial]
setState(w, newState) ==
  LET prevState == w.state
      next == IF newState.kind = "function"
                THEN applyUpdater(newState.fn, prevState)
                ELSE [ref |-> freshRef(prevState.ref),
                      value |-> Spread(prevState.value, newState.partial)]
      w1 == [w EXCEPT !.state = next]
  IN  IF next.ref # prevState.ref
        THEN LET w2 == notifyListeners(w1, next, prevState, 1)
             IN  IF w2.persist THEN persistState(w2) ELSE w2
        ELSE w1

\* faulty variant: reset() restores what loadInitialState yields (the hydrated value)
reset_toLoaded(w) ==
  LET prevState == w.state
      loaded == loadInitialState(w.persist, w.storage)
      w1 == notifyListeners([w EXCEPT !.state = loaded], loaded, prevState, 1)
  IN  IF w1.persist THEN clearPersistedState(w1) ELSE w1

\* reset() of the store
reset(w) ==
  LET prevState == w.state
      w1 == notifyListeners([w EXCEPT !.state = InitialState], InitialState, prevState, 1)
  IN  IF w1.persist THEN clearPersistedState(w1) ELSE w1

\* the hooks emitted during a call, in order
EmitsOf(log) == LET es == SelectSeq(log, LAMBDA e : e[1] = "emit")
                IN  [i \in 1..Len(es) |-> es[i][2]]

----------------------------------------------------------------------------
\* SDKManager (src/src/core/SDKManager.ts)

\* faulty variant: the isInitialized guard is missing
initializeGuard_destroyedOnly(initialized, destroyed) ==
  IF destroyed THEN "SDK_DESTROYED" ELSE "OK"

\* the guards at the head of initialize(): "OK", or the code of the SDKError thrown
initializeGuard(initialized, destroyed) ==
  IF initialized THEN "ALREADY_INITIALIZED"
  ELSE IF destroyed THEN "SDK_DESTROYED"
  ELSE "OK"

\* the loop of initialize() over config.plugins from index i on;
\* failing: the plugins whose initialize() throws.  Each this.plugins.register(plugin)
\* call is listed in calls as <<"register", name>>, before the callbacks it invokes.
RECURSIVE registerConfigured(_, _, _, _, _)
registerConfigured(reg, cfg, i, failing, calls) ==
  IF i > Len(cfg) THEN Outcome(reg.plugins, reg.graph, "OK", "none", calls)
  ELSE LET r == register(reg, cfg[i], cfg[i].name \in failing)
           calls1 == calls \o << <<"register", cfg[i].name>> >> \o r.calls
       IN  IF r.code # "OK"
             THEN Outcome(r.plugins, r.graph, r.code, r.cause, calls1)
             ELSE registerConfigured(r, cfg, i + 1, failing, calls1)

\* faulty variant: the error caught by initialize() is not thrown again
rethrown_swallowed(code) == "OK"

\* the catch blocks of initialize(), destroy() and reset() throw the SDKError again
rethrown(code) == code

\* faulty variant: isInitialized is set after the afterMount hook was emitted
initialize_flagLast(w, reg, cfg, failing) ==
  LET w1 == emitAsync(w, "beforeMount", <<>>)
      r  == registerConfigured(reg, cfg, 1, failing, <<>>)
      w2 == [w1 EXCEPT !.log = @ \o r.calls]
  IN  IF r.code = "OK"
        THEN [w |-> Log(emitAsync(w2, "afterMount", <<>>), <<"set", "isInitialized">>),
              plugins |-> r.plugins, graph |-> r.graph,
              code |-> "OK", cause |-> "none", initialized |-> TRUE]
        ELSE [w |-> emit(w2, "error", <<r.code, "initialization">>),
              plugins |-> r.plugins, graph |-> r.graph,
              code |-> rethrown(r.code), cause |-> r.cause, initialized |-> FALSE]

\* the try block of initialize() and its catch: beforeMount is emitted and awaited, the
\* configured plugins are registered one after the other, isInitialized is set (listed in
\* the log as <<"set", "isInitialized">>) and afterMount is emitted and awaited; an error
\* is emitted on 'error' with context 'initialization' and thrown again
initialize(w, reg, cfg, failing) ==
  LET w1 == emitAsync(w, "beforeMount", <<>>)
      r  == registerConfigured(reg, cfg, 1, failing, <<>>)
      w2 == [w1 EXCEPT !.log = @ \o r.calls]
  IN  IF r.code = "OK"
        THEN [w |-> emitAsync(Log(w2, <<"set", "isInitialized">>), "afterMount", <<>>),
              plugins |-> r.plugins, graph |-> r.graph,
              code |-> "OK", cause |-> "none", initialized |-> TRUE]
        ELSE [w |-> emit(w2, "error", <<r.code, "initialization">>),
              plugins |-> r.plugins, graph |-> r.graph,
              code |-> rethrown(r.code), cause |-> r.cause, initialized |-> FALSE]

\* faulty variant: destroy() never returns early
destroyGuard_never(destroyed) == FALSE

\* the guard at the head of destroy(): TRUE when destroy() returns at once
destroyGuard(destroyed) == destroyed

\* sortPluginsByDependenciesReverse: depth-first, dependents before the plugin itself.
\* st = [sorted, visited, visiting]; sorted holds the plugins by name
RECURSIVE visit(_, _, _)
RECURSIVE visitDependents(_, _, _, _)
visit(pls, plugin, st) ==
  IF plugin.name \in st.visiting THEN st
  ELSE IF plugin.name \in st.visited THEN st
  ELSE LET st1 == [st EXCEPT !.visiting = @ \cup {plugin.name}]
           st2 == visitDependents(pls, plugin, 1, st1)
       IN  [sorted   |-> Append(st2.sorted, plugin.name),
            visited  |-> st2.visited \cup {plugin.name},
            visiting |-> st2.visiting \ {plugin.name}]

visitDependents(pls, plugin, i, st) ==
  IF i > Len(pls) THEN st
  ELSE visitDependents(pls, plugin, i + 1,
         IF plugin.name \in pls[i].dependencies THEN visit(pls, pls[i], st) ELSE st)

RECURSIVE visitAll(_, _, _)
visitAll(pls, i, st) ==
  IF i > Len(pls) THEN st ELSE visitAll(pls, i + 1, visit(pls, pls[i], st))

sortPluginsByDependenciesReverse(pls) ==
  visitAll(pls, 1, [sorted |-> <<>>, visited |-> {}, visiting |-> {}]).sorted

\* the invocations of one plugin's destroy callback that a destroy() call can make
Invocations == {1, 2}

\* the disable pass of destroy() over the sorted plugins from index i on.
\* throws[name]: the invocations of name's destroy callback that throw
RECURSIVE disablePass(_, _, _, _, _)
disablePass(reg, sorted, i, throws, calls) ==
  IF i > Len(sorted) THEN Outcome(reg.plugins, reg.graph, "OK", "none", calls)
  ELSE IF ~get(reg.plugins, sorted[i]).enabled
    THEN disablePass(reg, sorted, i + 1, throws, calls)
  ELSE LET name == sorted[i]
           r    == disable(reg, name, 1 \in throws[name])
       IN  IF r.code = "OK"
             THEN disablePass(r, sorted, i + 1, throws, calls \o r.calls)
           \* catch (listed in calls as <<"disable rejected", name>>): plugin.destroy() is
           \* called directly, then plugin.enabled = false
           ELSE IF (Len(r.calls) + 1) \in throws[name]
             THEN Outcome(r.plugins, r.graph, "DESTRUCTION_FAILED", CallbackError,
                          calls \o r.calls
                            \o << <<"disable rejected", name>>, <<"destroy", name>> >>)
           ELSE disablePass([plugins |-> setEnabled(r.plugins, name, FALSE), graph |-> r.graph],
                            sorted, i + 1, throws,
                            calls \o r.calls
                              \o << <<"disable rejected", name>>, <<"destroy", name>> >>)

\* the unregister pass of destroy() over allPlugins from index i on; failures are ignored
RECURSIVE unregisterPass(_, _, _, _, _)
unregisterPass(reg, all, i, throws, calls) ==
  IF i > Len(all) THEN Outcome(reg.plugins, reg.graph, "OK", "none", calls)
  ELSE LET n == Cardinality({j \in 1..Len(calls) : calls[j] = <<"destroy", all[i].name>>}) + 1
           r == unregister(reg, all[i].name, n \in throws[all[i].name])
       IN  unregisterPass(r, all, i + 1, throws, calls \o r.calls)

\* the body of destroy() between the two hook emissions
teardown(reg, throws) ==
  LET d == disablePass(reg, sortPluginsByDependenciesReverse(reg.plugins), 1, throws, <<>>)
  IN  IF d.code # "OK" THEN d
      ELSE unregisterPass(d, reg.plugins, 1, throws, d.calls)

\* the try block of destroy() and its catch: beforeUnmount is emitted and awaited, the
\* plugins are disabled and unregistered, the store listeners and the hooks are cleared,
\* the flags are set (listed in the log as <<"set", "isDestroyed">>) and afterUnmount is
\* emitted and awaited; an error is emitted on 'error' with context 'destruction' and
\* thrown again
destroy(w, reg, throws) ==
  LET w1 == emitAsync(w, "beforeUnmount", <<>>)
      r  == teardown(reg, throws)
      w2 == [w1 EXCEPT !.log = @ \o r.calls]
  IN  IF r.code = "OK"
        THEN LET w3 == clearListeners(w2)
                 w4 == [w3 EXCEPT !.hooks = clearAll(@)]
             IN  [w |-> emitAsync(Log(w4, <<"set", "isDestroyed">>), "afterUnmount", <<>>),
                  plugins |-> r.plugins, graph |-> r.graph,
                  code |-> "OK", cause |-> "none", destroyed |-> TRUE]
        ELSE [w |-> emit(w2, "error", <<r.code, "destruction">>),
              plugins |-> r.plugins, graph |-> r.graph,
              code |-> rethrown(r.code), cause |-> r.cause, destroyed |-> FALSE]

\* faulty variant: reset() runs whether or not the coordinator is initialized
resetGuard_never(initialized) == "OK"

\* the guard of reset(), thrown before the try block
resetGuard(initialized) == IF ~initialized THEN "NOT_INITIALIZED" ELSE "OK"

\* the callbacks of a plugin that throw during reset()
ResetCallbacks == {"destroy", "initialize"}

\* reset(), the loop over this.plugins.getAll(): each plugin that is enabled when the loop
\* reaches it is disabled and then enabled; the first call that rejects ends the loop
RECURSIVE resetPass(_, _, _, _, _)
resetPass(reg, all, i, throws, calls) ==
  IF i > Len(all) THEN Outcome(reg.plugins, reg.graph, "OK", "none", calls)
  ELSE IF ~(has(reg.plugins, all[i].name) /\ get(reg.plugins, all[i].name).enabled)
    THEN resetPass(reg, all, i + 1, throws, calls)
  ELSE LET d == disable(reg, all[i].name, "destroy" \in throws[all[i].name])
       IN  IF d.code # "OK"
             THEN Outcome(d.plugins, d.graph, d.code, d.cause, calls \o d.calls)
             ELSE LET e == enable([plugins |-> d.plugins, graph |-> d.graph], all[i].name,
                                  "initialize" \in throws[all[i].name])
                  IN  IF e.code # "OK"
                        THEN Outcome(e.plugins, e.graph, e.code, e.cause,
                                     calls \o d.calls \o e.calls)
                        ELSE resetPass([plugins |-> e.plugins, graph |-> e.graph], all, i + 1,
                                       throws, calls \o d.calls \o e.calls)

----------------------------------------------------------------------------
\* The observation of a call
Call(op, arg, code, cause, calls, emits) ==
  [op |-> op, arg |-> arg, code |-> code, cause |-> cause, calls |-> calls, emits |-> emits]

Registry == [plugins |-> plugins, graph |-> dependencyGraph]

\* the variables of the store and the bus take the values the call w left
Returns(w) ==
  /\ state' = w.state
  /\ storage' = w.storage
  /\ listeners' = setEntries(w.listeners)
  /\ hooks' = w.hooks

Init ==
  /\ plugins = <<>>
  /\ dependencyGraph = [d \in {} |-> {}]
  /\ isInitialized = FALSE
  /\ isDestroyed = FALSE
  /\ config \in Configs
  /\ hooks = on(initializeHooks([h \in {} |-> <<>>]), "error", ErrorLogger)
  /\ listeners = <<StateChangeForwarder>>
  /\ persist = FALSE
  /\ storage = NoItem
  /\ state = loadInitialState(persist, storage)
  /\ closures = {}
  /\ tasks = <<>>
  /\ last = Call("new", Arg("-"), "OK", "none", <<>>, <<>>)

\* sdk.plugins.register(plugin)
Register ==
  \E plugin \in Descriptors :
   \E initFails \in (IF plugin.enabled /\ ~has(plugins, plugin.name) THEN BOOLEAN ELSE {FALSE}) :
    LET r == register(Registry, plugin, initFails)
    IN  /\ plugins' = r.plugins
        /\ dependencyGraph' = r.graph
        /\ last' = Call("register", plugin, r.code, r.cause, r.calls, <<>>)
        /\ UNCHANGED <<isInitialized, isDestroyed, config, closures, tasks, hooks, listeners, state, storage, persist>>

\* sdk.plugins.unregister(name)
Unregister ==
  \E name \in Names :
   \E destroyFails \in (IF has(plugins, name) /\ get(plugins, name).enabled THEN BOOLEAN ELSE {FALSE}) :
    LET r == unregister(Registry, name, destroyFails)
    IN  /\ plugins' = r.plugins
        /\ dependencyGraph' = r.graph
        /\ last' = Call("unregister", Arg(name), r.code, r.cause, r.calls, <<>>)
        /\ UNCHANGED <<isInitialized, isDestroyed, config, closures, tasks, hooks, listeners, state, storage, persist>>

\* sdk.plugins.enable(name)
Enable ==
  \E name \in Names :
   \E initFails \in (IF has(plugins, name) /\ ~get(plugins, name).enabled THEN BOOLEAN ELSE {FALSE}) :
    LET r == enable(Registry, name, initFails)
    IN  /\ plugins' = r.plugins
        /\ dependencyGraph' = r.graph
        /\ last' = Call("enable", Arg(name), r.code, r.cause, r.calls, <<>>)
        /\ UNCHANGED <<isInitialized, isDestroyed, config, closures, tasks, hooks, listeners, state, storage, persist>>

\* sdk.plugins.disable(name)
Disable ==
  \E name \in Names :
   \E destroyFails \in (IF has(plugins, name) /\ get(plugins, name).enabled THEN BOOLEAN ELSE {FALSE}) :
    LET r == disable(Registry, name, destroyFails)
    IN  /\ plugins' = r.plugins
        /\ dependencyGraph' = r.graph
        /\ last' = Call("disable", Arg(name), r.code, r.cause, r.calls, <<>>)
        /\ UNCHANGED <<isInitialized, isDestroyed, config, closures, tasks, hooks, listeners, state, storage, persist>>

\* sdk.initialize()
Initialize ==
  \E failing \in SUBSET {config[i].name : i \in 1..Len(config)} :
    IF initializeGuard(isInitialized, isDestroyed) # "OK"
      THEN /\ last' = Call("initialize", Arg("-"), initializeGuard(isInitialized, isDestroyed),
                           "none", <<>>, <<>>)
           /\ UNCHANGED <<plugins, dependencyGraph, isInitialized, isDestroyed, config, closures, tasks, hooks, listeners, state, storage, persist>>
      ELSE \E r \in {initialize(World, Registry, config, failing)} :
               /\ plugins' = r.plugins
               /\ dependencyGraph' = r.graph
               /\ isInitialized' = r.initialized
               /\ Returns(r.w)
               /\ last' = Call("initialize", Arg("-"), r.code, r.cause, r.w.log, EmitsOf(r.w.log))
               /\ UNCHANGED <<isDestroyed, config, closures, tasks, persist>>

\* sdk.destroy()
Destroy ==
  \E throws \in {t \in [Names -> SUBSET Invocations] :
                    \A n \in Names : ~(has(plugins, n) /\ get(plugins, n).enabled) => t[n] = {}} :
    IF destroyGuard(isDestroyed)
      THEN /\ last' = Call("destroy", Arg("-"), "OK", "none", <<>>, <<>>)
           /\ UNCHANGED <<plugins, dependencyGraph, isInitialized, isDestroyed, config, closures, tasks, hooks, listeners, state, storage, persist>>
      ELSE \E r \in {destroy(World, Registry, throws)} :
               /\ plugins' = r.plugins
               /\ dependencyGraph' = r.graph
               /\ isDestroyed' = r.destroyed
               /\ isInitialized' = (isInitialized /\ ~r.destroyed)
               /\ Returns(r.w)
               /\ last' = Call("destroy", Arg("-"), r.code, r.cause, r.w.log, EmitsOf(r.w.log))
               /\ UNCHANGED <<config, closures, tasks, persist>>

\* sdk.reset(): the store is reset, then the plugins are cycled; what is thrown inside
\* the try block is emitted on the 'error' hook with context 'reset' and thrown again
Reset ==
  \E throws \in {t \in [Names -> SUBSET ResetCallbacks] :
                    \A n \in Names : ~(isInitialized /\ has(plugins, n) /\ get(plugins, n).enabled)
                                        => t[n] = {}} :
    IF resetGuard(isInitialized) # "OK"
      THEN /\ last' = Call("reset", Arg("-"), resetGuard(isInitialized), "none", <<>>, <<>>)
           /\ UNCHANGED <<plugins, dependencyGraph, isInitialized, isDestroyed, config, closures, tasks, hooks,
                          listeners, state, storage, persist>>
      ELSE LET w1 == reset(World)
               r  == resetPass(Registry, plugins, 1, throws, <<>>)
               w2 == [w1 EXCEPT !.log = @ \o r.calls]
               w3 == IF r.code = "OK" THEN w2 ELSE emit(w2, "error", <<r.code, "reset">>)
           IN  /\ plugins' = r.plugins
               /\ dependencyGraph' = r.graph
               /\ state' = w3.state
               /\ storage' = w3.storage
               /\ listeners' = setEntries(w3.listeners)
               /\ hooks' = w3.hooks
               /\ last' = Call("reset", Arg("-"), rethrown(r.code), r.cause, w3.log, EmitsOf(w3.log))
               /\ UNCHANGED <<isInitialized, isDestroyed, config, closures, tasks, persist>>

Next ==
  \/ Reset
  \/ Register
  \/ Unregister
  \/ Enable
  \/ Disable
  \/ Initialize
  \/ Destroy

Spec == Init /\ [][Next]_vars

TypeOK ==
  /\ \A i \in 1..Len(plugins) : plugins[i] \in Descriptors
  /\ isInitialized \in BOOLEAN
  /\ isDestroyed \in BOOLEAN

----------------------------------------------------------------------------
\* Vocabulary of the properties.  In a step of Next, last' describes the call
\* that made the step and the unprimed variables are the state it was made in.

\* some registered plugin declares name as a dependency
DeclaredDependents(ps, name) == {ps[i].name : i \in {j \in 1..Len(ps) : name \in ps[j].dependencies}}

\* the names reachable from the names in S along declared dependencies, where the
\* candidate descriptor d stands for its own name
RECURSIVE DependencyClosure(_, _, _)
DependencyClosure(ps, d, S) ==
  LET step == S \cup UNION { IF n = d.name THEN d.dependencies
                             ELSE IF has(ps, n) THEN get(ps, n).dependencies
                             ELSE {} : n \in S }
  IN  IF step = S THEN S ELSE DependencyClosure(ps, d, step)

\* registering d would close a dependency cycle through d
CompletesCycle(ps, d) == d.name \in DependencyClosure(ps, d, d.dependencies)

RegistryUnchanged == plugins' = plugins /\ dependencyGraph' = dependencyGraph

\* C1: unregister(name) succeeds and removes name whenever name is registered, no
\* registered plugin declares name as a dependency and name's destroy callback
\* does not fail (so A can be unregistered once its only dependent B is gone).
C1_UnregisterSucceedsWithoutDependents ==
  [][ ( /\ last'.op = "unregister"
        /\ has(plugins, last'.arg.name)
        /\ DeclaredDependents(plugins, last'.arg.name) = {}
        /\ last'.cause # CallbackError )
      => ( last'.code = "OK" /\ ~has(plugins', last'.arg.name) ) ]_vars

\* C2: while a registered plugin, enabled or disabled, declares name as a
\* dependency, unregister(name) fails, the registry (registrations and enabled
\* flags) is unchanged and no destroy callback is invoked.
C2_UnregisterBlockedByDependents ==
  [][ ( /\ last'.op = "unregister"
        /\ DeclaredDependents(plugins, last'.arg.name) # {} )
      => ( /\ last'.code # "OK"
           /\ plugins' = plugins
           /\ last'.calls = <<>> ) ]_vars

\* C2 witness: unregister was rejected for a plugin whose dependent is disabled.
C2_Witness ==
  /\ last.op = "unregister"
  /\ last.cause = "PLUGIN_HAS_DEPENDENTS"
  /\ \E i \in 1..Len(plugins) :
       last.arg.name \in plugins[i].dependencies /\ ~plugins[i].enabled

\* C3: a register call whose descriptor names a registered plugin, declares an
\* unregistered dependency or would close a cycle fails, leaves the plugin map
\* and the dependents index as they were and does not invoke initialize.
C3_FailedRegisterLeavesRegistry ==
  [][ ( /\ last'.op = "register"
        /\ \/ has(plugins, last'.arg.name)
           \/ \E dep \in last'.arg.dependencies : ~has(plugins, dep)
           \/ CompletesCycle(plugins, last'.arg) )
      => ( /\ last'.code # "OK"
           /\ RegistryUnchanged
           /\ last'.calls = <<>> ) ]_vars

\* C3 witness: a descriptor that differs from the stored one of the same name
\* was rejected, and the stored one is still there.
C3_Witness ==
  /\ last.op = "register"
  /\ last.cause = "PLUGIN_ALREADY_EXISTS"
  /\ has(plugins, last.arg.name)
  /\ get(plugins, last.arg.name) # last.arg

\* C4: the code of the error the caller receives names the violated
\* precondition: PLUGIN_ALREADY_EXISTS for register of a registered name,
\* DEPENDENCY_NOT_ENABLED for enable of a plugin with a dependency not enabled.
C4_ErrorCodeNamesPrecondition ==
  [][ /\ ( last'.op = "register" /\ has(plugins, last'.arg.name) )
         => last'.code = "PLUGIN_ALREADY_EXISTS"
      /\ ( /\ last'.op = "enable"
           /\ has(plugins, last'.arg.name)
           /\ ~get(plugins, last'.arg.name).enabled
           /\ \E dep \in get(plugins, last'.arg.name).dependencies :
                ~(has(plugins, dep) /\ get(plugins, dep).enabled) )
         => last'.code = "DEPENDENCY_NOT_ENABLED" ]_vars

\* C5: a register call whose descriptor would close a dependency cycle (a
\* self-dependency included) fails with CIRCULAR_DEPENDENCY (as the code or as
\* the wrapped error) and registers nothing.
C5_CycleRejectedAsCircular ==
  [][ ( last'.op = "register" /\ CompletesCycle(plugins, last'.arg) )
      => ( /\ ( last'.code = "CIRCULAR_DEPENDENCY" \/ last'.cause = "CIRCULAR_DEPENDENCY" )
           /\ plugins' = plugins ) ]_vars

\* C6: for a registered, disabled plugin whose initialize does not fail, enable
\* succeeds exactly when every declared dependency is registered and enabled;
\* when it is rejected the registry is unchanged and initialize is not invoked;
\* enable never changes the enabled flag of another plugin.
C6_EnableIffDependenciesEnabled ==
  [][ ( /\ last'.op = "enable"
        /\ has(plugins, last'.arg.name)
        /\ ~get(plugins, last'.arg.name).enabled )
      => LET name == last'.arg.name
             ready == \A dep \in get(plugins, name).dependencies :
                        \E i \in 1..Len(plugins) : plugins[i].name = dep /\ plugins[i].enabled
         IN  /\ last'.cause # CallbackError => ( (last'.code = "OK") <=> ready )
             /\ ~ready => ( last'.code # "OK" /\ plugins' = plugins /\ last'.calls = <<>> )
             /\ ready /\ last'.code = "OK" =>
                  ( get(plugins', name).enabled /\ last'.calls = << <<"initialize", name>> >> )
             /\ \A n \in Names \ {name} :
                  /\ has(plugins', n) <=> has(plugins, n)
                  /\ has(plugins, n) => get(plugins', n).enabled = get(plugins, n).enabled ]_vars

\* C6 witness: enable was rejected because a dependency is disabled, and the
\* plugin and its dependency are both still disabled.
C6_Witness ==
  /\ last.op = "enable"
  /\ last.cause = "DEPENDENCY_NOT_ENABLED"
  /\ has(plugins, last.arg.name)
  /\ ~get(plugins, last.arg.name).enabled
  /\ \E dep \in get(plugins, last.arg.name).dependencies :
       has(plugins, dep) /\ ~get(plugins, dep).enabled

\* C7: for a registered, enabled plugin whose destroy does not fail, disable is
\* rejected exactly when some registered, enabled plugin declares it as a
\* dependency.
C7_DisableRejectedIffEnabledDependent ==
  [][ ( /\ last'.op = "disable"
        /\ has(plugins, last'.arg.name)
        /\ get(plugins, last'.arg.name).enabled
        /\ last'.cause # CallbackError )
      => ( (last'.code # "OK")
             <=> \E i \in 1..Len(plugins) :
                   plugins[i].enabled /\ last'.arg.name \in plugins[i].dependencies ) ]_vars

\* C8: once initialize() has succeeded (and until destroy()), initialize()
\* fails with ALREADY_INITIALIZED, emits no hook, invokes no plugin callback,
\* registers nothing and leaves both flags as they were.
C8_SecondInitializeRejected ==
  [][ /\ ( last'.op = "initialize" /\ last'.code = "OK" ) => isInitialized'
      /\ ( isInitialized /\ last'.op # "destroy" ) => isInitialized'
      /\ ( isInitialized /\ last'.op = "initialize" )
         => ( /\ last'.code = "ALREADY_INITIALIZED"
              /\ last'.emits = <<>>
              /\ last'.calls = <<>>
              /\ RegistryUnchanged
              /\ UNCHANGED <<isInitialized, isDestroyed, hooks, listeners>> ) ]_vars

\* C8 witness: a second initialize() was rejected on an initialized coordinator
\* whose configuration lists plugins.
C8_Witness ==
  /\ last.op = "initialize"
  /\ last.code = "ALREADY_INITIALIZED"
  /\ isInitialized
  /\ Len(config) > 0

\* C9: a successful destroy() leaves the destroyed flag set, the flag stays set,
\* and every destroy() on a destroyed coordinator succeeds without emitting a
\* hook, invoking a plugin callback or changing any state.
C9_DestroyIdempotent ==
  [][ /\ ( last'.op = "destroy" /\ last'.code = "OK" ) => isDestroyed'
      /\ isDestroyed => isDestroyed'
      /\ ( isDestroyed /\ last'.op = "destroy" )
         => ( /\ last'.code = "OK"
              /\ last'.emits = <<>>
              /\ last'.calls = <<>>
              /\ RegistryUnchanged
              /\ UNCHANGED <<isInitialized, isDestroyed, hooks, listeners>> ) ]_vars

\* C9 witness: a later destroy() returned at once although an enabled plugin is
\* registered.
C9_Witness ==
  /\ last.op = "destroy"
  /\ last.code = "OK"
  /\ last.emits = <<>>
  /\ isDestroyed
  /\ \E i \in 1..Len(plugins) : plugins[i].enabled

\* C10: after a destroy() that ran the teardown returns successfully, the
\* destroyed flag is set and no plugin is registered.
C10_DestroyLeavesNoPlugin ==
  ( last.op = "destroy" /\ last.code = "OK" /\ last.emits # <<>> )
    => ( isDestroyed /\ Len(plugins) = 0 )

----------------------------------------------------------------------------
\* C11: Destroyed is terminal.  From a state in which the coordinator is destroyed, every
\* call leaves isDestroyed true and isInitialized false; initialize() is rejected with
\* SDK_DESTROYED and reset() with NOT_INITIALIZED, and neither changes the registry, the
\* hooks, the store or its listeners.  A coordinator is never both destroyed and initialized.
C11_DestroyedIsTerminal ==
  [][ /\ (isDestroyed' => ~isInitialized')
      /\ (isDestroyed =>
            /\ isDestroyed'
            /\ (last'.op = "initialize" =>
                  /\ last'.code = "SDK_DESTROYED"
                  /\ last'.calls = <<>> /\ last'.emits = <<>>
                  /\ UNCHANGED <<plugins, dependencyGraph, hooks, listeners, state, storage>>)
            /\ (last'.op = "reset" =>
                  /\ last'.code = "NOT_INITIALIZED"
                  /\ last'.calls = <<>> /\ last'.emits = <<>>
                  /\ UNCHANGED <<plugins, dependencyGraph, hooks, listeners, state, storage>>)) ]_vars

\* reset() has been called on a destroyed coordinator
C11_Witness ==
  /\ isDestroyed
  /\ last.op = "reset"
  /\ last.code = "NOT_INITIALIZED"

\* the names of the enabled plugins of a registry
EnabledNames(ps) == {ps[i].name : i \in {j \in 1..Len(ps) : ps[j].enabled}}

\* how many times the entry occurs in a log
Count(log, entry) == Cardinality({i \in 1..Len(log) : log[i] = entry})

\* the entry a occurs in the log before the entry b
Before(log, a, b) ==
  \E i, j \in 1..Len(log) : i < j /\ log[i] = a /\ log[j] = b

\* C19: on an initialized coordinator, a reset() during which no plugin callback throws
\* succeeds: the store holds the configured initial value, every plugin that was enabled
\* had destroy and then initialize invoked exactly once, and the same plugins are enabled.
C19_ResetCyclesEveryEnabledPlugin ==
  [][ (isInitialized /\ last'.op = "reset" /\ last'.cause # CallbackError) =>
        /\ last'.code = "OK"
        /\ state' = InitialState
        /\ EnabledNames(plugins') = EnabledNames(plugins)
        /\ \A n \in EnabledNames(plugins) :
              /\ Count(last'.calls, <<"destroy", n>>) = 1
              /\ Count(last'.calls, <<"initialize", n>>) = 1
              /\ Before(last'.calls, <<"destroy", n>>, <<"initialize", n>>) ]_vars

\* C20: destroy() is best-effort.  A destroy() call on a coordinator that is not yet
\* destroyed completes whatever the plugins' destroy callbacks do: it does not reject, no
\* plugin stays enabled, the store listeners and the hooks are cleared and the coordinator
\* is destroyed.
C20_DestroyIsBestEffort ==
  [][ (last'.op = "destroy" /\ ~isDestroyed) =>
        /\ last'.code = "OK"
        /\ EnabledNames(plugins') = {}
        /\ listeners' = <<>>
        /\ hooks' = clearAll(hooks)
        /\ isDestroyed'
        /\ ~isInitialized' ]_vars

----------------------------------------------------------------------------
\* The store of a constructed coordinator: values, hydration and persistence

\* the argument of a setState call
Update(kind, fn, partial) == [kind |-> kind, fn |-> fn, partial |-> partial]

\* the partial objects passed to setState
Partials == {[k \in {"count"} |-> "1"], [k \in {"count"} |-> "0"], [k \in {"extra"} |-> "0"]}

Updates ==
  {Update("partial", "-", p) : p \in Partials}
    \cup {Update("function", fn, [k \in {} |-> "0"]) : fn \in Updaters}

\* what localStorage holds under persistKey when the coordinator is constructed
StoredItems ==
  {NoItem, Garbage, JSONstringify([k \in {"count"} |-> "1"]), JSONstringify([k \in {"extra"} |-> "1"])}

\* new SDKManager({ initialState: { count: 0 }, persist, persistKey }) with no plugins
StoreInit ==
  /\ plugins = <<>>
  /\ dependencyGraph = [d \in {} |-> {}]
  /\ isInitialized = FALSE
  /\ isDestroyed = FALSE
  /\ config = <<>>
  /\ hooks = on(initializeHooks([h \in {} |-> <<>>]), "error", ErrorLogger)
  /\ listeners = <<StateChangeForwarder>>
  /\ persist \in BOOLEAN
  /\ storage \in StoredItems
  /\ state = loadInitialState(persist, storage)
  /\ closures = {}
  /\ tasks = <<>>
  /\ last = Call("new", Arg("-"), "OK", "none", <<>>, <<>>)

\* sdk.state.setState(update), update taken from the set U
SetStateOf(U) ==
  \E update \in U :
    LET w == setState(World, update)
    IN  /\ Returns(w)
        /\ last' = Call("setState", update, "OK", "none", w.log, EmitsOf(w.log))
        /\ UNCHANGED <<plugins, dependencyGraph, isInitialized, isDestroyed, config, closures, tasks, persist>>

\* sdk.state.reset()
StoreReset ==
  LET w == reset(World)
  IN  /\ Returns(w)
      /\ last' = Call("state.reset", Arg("-"), "OK", "none", w.log, EmitsOf(w.log))
      /\ UNCHANGED <<plugins, dependencyGraph, isInitialized, isDestroyed, config, closures, tasks, persist>>

\* sdk.state.subscribe(listener), listener taken from the set L
SubscribeOf(L) ==
  \E listener \in L :
    LET w == subscribe(World, listener)
    IN  /\ Returns(w)
        /\ last' = Call("subscribe", Arg(listener), "OK", "none", <<>>, <<>>)
        /\ UNCHANGED <<plugins, dependencyGraph, isInitialized, isDestroyed, config, closures, tasks, persist>>

\* the closure returned by sdk.state.subscribe(listener) is called
UnsubscribeOf(L) ==
  \E listener \in L :
    LET w == unsubscribe(World, listener)
    IN  /\ Returns(w)
        /\ last' = Call("unsubscribe", Arg(listener), "OK", "none", <<>>, <<>>)
        /\ UNCHANGED <<plugins, dependencyGraph, isInitialized, isDestroyed, config, closures, tasks, persist>>

StoreSetState == SetStateOf(Updates)

StoreSubscribe == SubscribeOf({"plain"})

StoreUnsubscribe == UnsubscribeOf({"plain"})

StoreNext ==
  \/ StoreSetState
  \/ StoreReset
  \/ StoreSubscribe
  \/ StoreUnsubscribe

SpecStore == StoreInit /\ [][StoreNext]_vars

\* the store listeners invoked during a call, in order
NotifiedOf(log) == LET ns == SelectSeq(log, LAMBDA e : e[1] = "notify")
                   IN  [i \in 1..Len(ns) |-> ns[i][2]]

\* the localStorage writes of a call
WritesOf(log) == SelectSeq(log, LAMBDA e : e[1] \in {"setItem", "removeItem"})

\* C12: setState with an updater that returns the current object itself invokes no
\* subscriber, emits no stateChange hook, writes nothing to localStorage and leaves the
\* state as it was.
C12_IdentityUpdateIsSilent ==
  [][ (last'.op = "setState" /\ last'.arg.kind = "function" /\ last'.arg.fn = "identity") =>
        /\ NotifiedOf(last'.calls) = <<>>
        /\ last'.emits = <<>>
        /\ WritesOf(last'.calls) = <<>>
        /\ state' = state
        /\ storage' = storage ]_vars

\* setState(x => x) was called on a persisting store that has a user subscriber
C12_Witness ==
  /\ last.op = "setState"
  /\ last.arg.kind = "function"
  /\ last.arg.fn = "identity"
  /\ persist
  /\ setHas(listeners, "plain")

\* C13: a setState call leaves the value its update yields from the value before it (a
\* partial object overrides exactly its own keys, an updater's result is taken as it is),
\* and reset() leaves the configured initial value, also when the store was constructed
\* from a persisted value.
C13_ValueFollowsUpdates ==
  [][ /\ (last'.op = "setState" /\ last'.arg.kind = "partial" =>
            /\ DOMAIN state'.value = (DOMAIN state.value) \cup (DOMAIN last'.arg.partial)
            /\ \A k \in DOMAIN state'.value :
                  state'.value[k] = IF k \in DOMAIN last'.arg.partial
                                      THEN last'.arg.partial[k] ELSE state.value[k])
      /\ (last'.op = "setState" /\ last'.arg.kind = "function" =>
            state'.value = applyUpdater(last'.arg.fn, state).value)
      /\ (last'.op = "state.reset" => state'.value = InitialState.value) ]_vars

\* reset() was called on a store whose value still held the key that only the persisted
\* value of the construction carries
C13_Witness ==
  /\ last.op = "state.reset"
  /\ persist
  /\ \E i \in 1..Len(last.calls) :
        /\ last.calls[i][1] = "notify"
        /\ "extra" \in DOMAIN last.calls[i][4].value
        /\ last.calls[i][4].value["extra"] = "1"
  /\ state.value = InitialState.value

----------------------------------------------------------------------------
\* The listeners of the store of a constructed coordinator

\* the listeners the user subscribes
Listeners == {"plain", "adder", "remover"}

NotifySetState == SetStateOf({Update("partial", "-", [k \in {"count"} |-> "1"])})

NotifyReset == StoreReset

NotifySubscribe == SubscribeOf(Listeners)

NotifyUnsubscribe == UnsubscribeOf(Listeners \cup {Late})

\* sdk.state.clearListeners()
ClearListeners ==
  LET w == clearListeners(World)
  IN  /\ Returns(w)
      /\ last' = Call("clearListeners", Arg("-"), "OK", "none", <<>>, <<>>)
      /\ UNCHANGED <<plugins, dependencyGraph, isInitialized, isDestroyed, config, closures, tasks, persist>>

NotifyInit ==
  /\ StoreInit
  /\ persist = FALSE
  /\ storage = NoItem

NotifyNext ==
  \/ NotifySetState
  \/ NotifyReset
  \/ NotifySubscribe
  \/ NotifyUnsubscribe
  \/ ClearListeners

SpecNotify == NotifyInit /\ [][NotifyNext]_vars

\* the arguments of the emissions of a hook during a call, in order
EmittedArgs(log, hook) ==
  LET es == SelectSeq(log, LAMBDA e : e[1] = "emit" /\ e[2] = hook)
  IN  [i \in 1..Len(es) |-> es[i][3]]

\* C16: on a coordinator that is not destroyed, every state change of the store (a setState
\* that changes the value's identity, or a reset) emits the stateChange hook exactly once,
\* with (newState, prevState).
C16_EveryChangeEmitsStateChange ==
  [][ (/\ ~isDestroyed
       /\ \/ last'.op = "setState" /\ state'.ref # state.ref
          \/ last'.op = "state.reset") =>
        EmittedArgs(last'.calls, "stateChange") = << <<state', state>> >> ]_vars

\* C17: every listener subscribed when a state-changing call starts is notified exactly
\* once during the call, and no other listener is notified, whatever the listeners add or
\* remove while they run.
C17_NotificationUsesSnapshot ==
  [][ (\/ last'.op = "setState" /\ state'.ref # state.ref
       \/ last'.op = "state.reset") =>
        \A l \in Listeners \cup {Late, StateChangeForwarder} :
            Count(NotifiedOf(last'.calls), l) = IF setHas(listeners, l) THEN 1 ELSE 0 ]_vars

----------------------------------------------------------------------------
\* The hook bus of a constructed coordinator (sdk.lifecycle)

\* the hooks the user works with: an ordinary hook and the 'error' hook
BusHooks == {"beforeMount", "error"}

\* the callbacks the user registers for a hook
CallbacksFor(hook) == IF hook = "error" THEN {"thrower"} ELSE Callbacks

\* on() is not called for a hook that already has this many callbacks
MaxCallbacks == 3

\* the argument of a bus call
BusArg(hook, callback) == [hook |-> hook, callback |-> callback]

\* the variables the bus does not touch
BusFrame ==
  UNCHANGED <<plugins, dependencyGraph, isInitialized, isDestroyed, config, closures, tasks, persist>>

\* sdk.lifecycle.on(hook, callback)
BusOn ==
  \E hook \in BusHooks :
    \E callback \in CallbacksFor(hook) :
      /\ Len(callbacksOf(World, hook)) < MaxCallbacks
      /\ hooks' = on(hooks, hook, callback)
      /\ last' = Call("on", BusArg(hook, callback), "OK", "none", <<>>, <<>>)
      /\ UNCHANGED <<state, storage, listeners>>
      /\ BusFrame

\* sdk.lifecycle.off(hook, callback), or the closure on() returned
BusOff ==
  \E hook \in BusHooks :
    \E callback \in CallbacksFor(hook) \cup {Late} :
      /\ hooks' = off(hooks, hook, callback)
      /\ last' = Call("off", BusArg(hook, callback), "OK", "none", <<>>, <<>>)
      /\ UNCHANGED <<state, storage, listeners>>
      /\ BusFrame

\* sdk.lifecycle.emit(hook)
BusEmit ==
  \E hook \in BusHooks :
    LET w == emit(World, hook, <<>>)
    IN  /\ Returns(w)
        /\ last' = Call("emit", BusArg(hook, "-"), "OK", "none", w.log, EmitsOf(w.log))
        /\ BusFrame

\* await sdk.lifecycle.emitAsync(hook)
BusEmitAsync ==
  \E hook \in BusHooks :
    LET w == emitAsync(World, hook, <<>>)
    IN  /\ Returns(w)
        /\ last' = Call("emitAsync", BusArg(hook, "-"), completionOf(w.log, hook), "none",
                        w.log, EmitsOf(w.log))
        /\ BusFrame

\* sdk.lifecycle.clear(hook)
BusClear ==
  \E hook \in BusHooks :
    /\ hooks' = clearHook(hooks, hook)
    /\ last' = Call("clear", BusArg(hook, "-"), "OK", "none", <<>>, <<>>)
    /\ UNCHANGED <<state, storage, listeners>>
    /\ BusFrame

\* sdk.lifecycle.clear()
BusClearAll ==
  /\ hooks' = clearAll(hooks)
  /\ last' = Call("clear", BusArg("-", "-"), "OK", "none", <<>>, <<>>)
  /\ UNCHANGED <<state, storage, listeners>>
  /\ BusFrame

BusNext ==
  \/ BusOn
  \/ BusOff
  \/ BusEmit
  \/ BusEmitAsync
  \/ BusClear
  \/ BusClearAll

SpecBus == NotifyInit /\ [][BusNext]_vars

\* the callbacks of a hook invoked during a call, in order
CalledOf(log, hook) ==
  LET cs == SelectSeq(log, LAMBDA e : e[1] = "call" /\ e[2] = hook)
  IN  [i \in 1..Len(cs) |-> cs[i][3]]

\* C14: emit(hook) invokes every callback registered for the hook when it starts exactly
\* once, whether or not callbacks of the emission throw.
C14_EveryCallbackInvokedOnce ==
  [][ last'.op = "emit" =>
        \A i \in 1..Len(callbacksOf(World, last'.arg.hook)) :
            Count(CalledOf(last'.calls, last'.arg.hook),
                  callbacksOf(World, last'.arg.hook)[i]) = 1 ]_vars

\* an emission in which a callback threw and a callback registered after it was invoked
C14_Witness ==
  /\ last.op = "emit"
  /\ Before(last.calls, <<"call", last.arg.hook, "thrower">>, <<"call", last.arg.hook, "plain">>)

\* C15: emit and emitAsync return normally.  For a hook other than 'error', 'error' is
\* emitted once with (error, hook) for each callback of the emission that fails (throws;
\* for emitAsync also: returns a promise that rejects) and not otherwise; during an emission
\* of 'error' nothing is emitted on 'error' again.
C15_FailuresGoToErrorHookOnce ==
  [][ last'.op \in {"emit", "emitAsync"} =>
        LET hook   == last'.arg.hook
            called == CalledOf(last'.calls, hook)
            errors == EmittedArgs(last'.calls, "error")
        IN  /\ last'.code = "OK"
            /\ hook # "error" =>
                 /\ Count(errors, <<CallbackError, hook>>) = Count(called, "thrower")
                 /\ Count(errors, <<Rejection, hook>>) =
                      IF last'.op = "emitAsync" THEN Count(called, "rejecter") ELSE 0
                 /\ Len(errors) = Count(errors, <<CallbackError, hook>>)
                                    + Count(errors, <<Rejection, hook>>)
            /\ hook = "error" => Len(errors) = 1 ]_vars

\* an emitAsync in which one callback threw and another's promise rejected, while a
\* callback of the 'error' hook throws as well
C15_Witness ==
  /\ last.op = "emitAsync"
  /\ last.arg.hook # "error"
  /\ Count(EmittedArgs(last.calls, "error"), <<CallbackError, last.arg.hook>>) = 1
  /\ Count(EmittedArgs(last.calls, "error"), <<Rejection, last.arg.hook>>) = 1
  /\ Count(CalledOf(last.calls, "error"), "thrower") = 2

\* C18: emit(hook) invokes the callbacks that were registered for the hook when it
\* started, in their order, and no others, whatever the callbacks register, remove or
\* clear while they run.
C18_EmitIteratesSnapshot ==
  [][ last'.op = "emit" =>
        CalledOf(last'.calls, last'.arg.hook) = callbacksOf(World, last'.arg.hook) ]_vars

\* an emission during which one callback registered Late, which was not invoked, and
\* another removed "plain", which was invoked after that
C18_Witness ==
  /\ last.op = "emit"
  /\ Count(CalledOf(last.calls, last.arg.hook), "adder") = 1
  /\ Count(CalledOf(last.calls, last.arg.hook), Late) = 0
  /\ setHas(callbacksOf(World, last.arg.hook), Late)
  /\ Before(last.calls, <<"call", last.arg.hook, "remover">>, <<"call", last.arg.hook, "plain">>)
  /\ ~setHas(callbacksOf(World, last.arg.hook), "plain")

----------------------------------------------------------------------------
\* C23: enable(name) of a registered, enabled plugin and disable(name) of a registered,
\* disabled plugin succeed, invoke no callback and change nothing in the registry,
\* whatever the state of the plugin's dependencies and dependents.
C23_TargetStateIsNoOp ==
  [][ /\ (last'.op = "enable" /\ has(plugins, last'.arg.name)
            /\ get(plugins, last'.arg.name).enabled) =>
              (last'.code = "OK" /\ last'.calls = <<>> /\ RegistryUnchanged)
      /\ (last'.op = "disable" /\ has(plugins, last'.arg.name)
            /\ ~get(plugins, last'.arg.name).enabled) =>
              (last'.code = "OK" /\ last'.calls = <<>> /\ RegistryUnchanged) ]_vars

\* disable was called on a disabled plugin that has an enabled dependent
C23_Witness ==
  /\ last.op = "disable"
  /\ last.code = "OK"
  /\ last.calls = <<>>
  /\ has(plugins, last.arg.name)
  /\ ~get(plugins, last.arg.name).enabled
  /\ enabledDependents(Registry, last.arg.name) # {}

\* C24: the dependents index is the inverse of the declarations of the registered
\* plugins: P is recorded as a dependent of D exactly when P is registered and declares D.
C24_DependentsIndexIsInverse ==
  \A d \in Names : getDependents(dependencyGraph, d) = DeclaredDependents(plugins, d)

----------------------------------------------------------------------------
\* emitAsync with callbacks that settle at different times

\* the callbacks registered for a hook in this specification
AsyncCallbacksFor(hook) == IF hook = "error" THEN {"thrower"} ELSE {"plain", "thrower", "rejecter", Slow}

\* sdk.lifecycle.on(hook, callback)
AsyncOn ==
  \E hook \in BusHooks :
    \E callback \in AsyncCallbacksFor(hook) :
      /\ hooks' = on(hooks, hook, callback)
      /\ last' = Call("on", BusArg(hook, callback), "OK", "none", <<>>, <<>>)
      /\ UNCHANGED <<state, storage, listeners>>
      /\ BusFrame

AsyncNext ==
  \/ AsyncOn
  \/ BusEmitAsync
  \/ BusClear

SpecAsync == NotifyInit /\ [][AsyncNext]_vars

\* C21: the promise emitAsync returns is never rejected, and it is resolved only after
\* every callback the emission started has settled, also when one of them failed early.
C21_EmitAsyncAwaitsAll ==
  [][ last'.op = "emitAsync" =>
        LET hook == last'.arg.hook
            log  == last'.calls
        IN  /\ last'.code = "OK"
            /\ log[Len(log)] = <<"completed", hook, "resolved">>
            /\ Count(log, <<"completed", hook, "resolved">>) = 1
            /\ \A i \in 1..Len(callbacksOf(World, hook)) :
                  Before(log, <<"settled", hook, callbacksOf(World, hook)[i]>>,
                              <<"completed", hook, "resolved">>) ]_vars

\* an emitAsync in which a callback threw, another's promise rejected, and a slow callback
\* settled after both
C21_Witness ==
  /\ last.op = "emitAsync"
  /\ last.arg.hook # "error"
  /\ Before(last.calls, <<"settled", last.arg.hook, "thrower">>, <<"settled", last.arg.hook, Slow>>)
  /\ Before(last.calls, <<"settled", last.arg.hook, "rejecter">>, <<"settled", last.arg.hook, Slow>>)
  /\ Before(last.calls, <<"call", last.arg.hook, Slow>>, <<"call", last.arg.hook, "thrower">>)

----------------------------------------------------------------------------
\* the config plugins whose registration initialize() attempted, in order
AttemptedOf(log) == LET rs == SelectSeq(log, LAMBDA e : e[1] = "register")
                    IN  [i \in 1..Len(rs) |-> rs[i][2]]

\* C25: in a destroy() during which no destroy callback throws, for every pair of enabled
\* registered plugins P, D where P declares D, P's destroy callback is invoked before D's,
\* and no disable of the teardown pass is rejected.
C25_TeardownDisablesDependentsFirst ==
  [][ (/\ last'.op = "destroy" /\ ~isDestroyed /\ last'.code = "OK"
       /\ \A n \in Names : Count(last'.calls, <<"destroy", n>>) <= 1) =>
        /\ \A P, D \in EnabledNames(plugins) :
              D \in get(plugins, P).dependencies =>
                Before(last'.calls, <<"destroy", P>>, <<"destroy", D>>)
        /\ \A n \in Names : Count(last'.calls, <<"disable rejected", n>>) = 0 ]_vars

\* C28: when the registration of a configured plugin fails during initialize(), no later
\* configured plugin is registered, isInitialized stays false, afterMount is not emitted,
\* 'error' is emitted once with the error and the context 'initialization', and
\* initialize() rejects with that error.
C28_FailedRegistrationAbortsInitialize ==
  [][ (/\ last'.op = "initialize"
       /\ initializeGuard(isInitialized, isDestroyed) = "OK"
       /\ last'.cause # "none") =>
        LET attempted == AttemptedOf(last'.calls)
        IN  /\ last'.code = "PLUGIN_REGISTRATION_FAILED"
            /\ Len(attempted) \in 1..Len(config)
            /\ attempted = [j \in 1..Len(attempted) |-> config[j].name]
            /\ \A j \in (Len(attempted) + 1)..Len(config) :
                  has(plugins', config[j].name) => has(plugins, config[j].name)
            /\ ~isInitialized'
            /\ Count(last'.emits, "afterMount") = 0
            /\ EmittedArgs(last'.calls, "error") = << <<last'.code, "initialization">> >> ]_vars

\* initialize() was rejected because the first of two configured plugins failed to
\* register, and the second one is not registered
C28_Witness ==
  /\ last.op = "initialize"
  /\ last.code = "PLUGIN_REGISTRATION_FAILED"
  /\ last.cause = CallbackError
  /\ Len(config) = 2
  /\ AttemptedOf(last.calls) = <<config[1].name>>
  /\ ~has(plugins, config[2].name)
  /\ ~isInitialized

----------------------------------------------------------------------------
\* The coordinator's lifecycle with listeners on the mount and unmount hooks

LifecycleHooks == {"beforeMount", "afterMount", "beforeUnmount", "afterUnmount"}

\* the callbacks registered on those hooks
LifecycleCallbacksFor(hook) ==
  IF hook \in {"beforeMount", "beforeUnmount"} THEN {"plain", Slow} ELSE {Slow}

\* new SDKManager({ plugins: [A, B (depends on A)] })
LifecycleInit ==
  /\ Init
  /\ config = <<Plugin("A", TRUE, {}), Plugin("B", TRUE, {"A"})>>

\* sdk.lifecycle.on(hook, callback) on a coordinator that is not destroyed
LifecycleOn ==
  \E hook \in LifecycleHooks :
    \E callback \in LifecycleCallbacksFor(hook) :
      /\ ~isDestroyed
      /\ hooks' = on(hooks, hook, callback)
      /\ last' = Call("on", BusArg(hook, callback), "OK", "none", <<>>, <<>>)
      /\ UNCHANGED <<state, storage, listeners>>
      /\ BusFrame

LifecycleNext ==
  \/ LifecycleOn
  \/ Initialize
  \/ Destroy

SpecLifecycle == LifecycleInit /\ [][LifecycleNext]_vars

\* C26: a destroy() that completes invokes every callback registered on beforeUnmount
\* before the call exactly once, before any plugin's destroy callback, and every callback
\* registered on afterUnmount before the call exactly once, after isDestroyed was set.
C26_DestroyEmitsTeardownHooks ==
  [][ (last'.op = "destroy" /\ ~isDestroyed /\ last'.code = "OK") =>
        /\ \A i \in 1..Len(callbacksOf(World, "beforeUnmount")) :
              LET cb == callbacksOf(World, "beforeUnmount")[i]
              IN  /\ Count(CalledOf(last'.calls, "beforeUnmount"), cb) = 1
                  /\ \A n \in Names :
                        Count(last'.calls, <<"destroy", n>>) > 0 =>
                          Before(last'.calls, <<"call", "beforeUnmount", cb>>, <<"destroy", n>>)
        /\ \A i \in 1..Len(callbacksOf(World, "afterUnmount")) :
              LET cb == callbacksOf(World, "afterUnmount")[i]
              IN  /\ Count(CalledOf(last'.calls, "afterUnmount"), cb) = 1
                  /\ Before(last'.calls, <<"set", "isDestroyed">>,
                                         <<"call", "afterUnmount", cb>>) ]_vars

\* C27: an initialize() that completes is sequenced: every beforeMount callback has
\* settled before the first configured plugin is registered, the configured plugins are
\* registered in list order and a plugin's initialize callback has run before the next
\* plugin is registered, isInitialized is set before any afterMount callback is invoked,
\* and the call completes after every afterMount callback has settled.
C27_InitializeIsSequenced ==
  [][ (last'.op = "initialize" /\ last'.code = "OK") =>
        LET log == last'.calls
        IN  /\ AttemptedOf(log) = [j \in 1..Len(config) |-> config[j].name]
            /\ \A i \in 1..Len(callbacksOf(World, "beforeMount")) :
                  /\ Before(log, <<"settled", "beforeMount", callbacksOf(World, "beforeMount")[i]>>,
                                 <<"completed", "beforeMount", "resolved">>)
                  /\ \A j \in 1..Len(config) :
                        Before(log, <<"completed", "beforeMount", "resolved">>,
                                    <<"register", config[j].name>>)
            /\ \A j \in 1..(Len(config) - 1) :
                  config[j].enabled =>
                    Before(log, <<"initialize", config[j].name>>, <<"register", config[j + 1].name>>)
            /\ isInitialized'
            /\ \A i \in 1..Len(callbacksOf(World, "afterMount")) :
                  /\ Before(log, <<"set", "isInitialized">>,
                                 <<"call", "afterMount", callbacksOf(World, "afterMount")[i]>>)
                  /\ Before(log, <<"settled", "afterMount", callbacksOf(World, "afterMount")[i]>>,
                                 <<"completed", "afterMount", "resolved">>)
            /\ log[Len(log)] = <<"completed", "afterMount", "resolved">> ]_vars

\* an initialize() of two plugins completed with a slow callback on beforeMount and one
\* on afterMount
C27_Witness ==
  /\ last.op = "initialize"
  /\ last.code = "OK"
  /\ Count(last.calls, <<"settled", "beforeMount", Slow>>) = 1
  /\ Count(last.calls, <<"settled", "afterMount", Slow>>) = 1
  /\ AttemptedOf(last.calls) = <<"A", "B">>
  /\ isInitialized

----------------------------------------------------------------------------
\* The closures returned by sdk.lifecycle.on and sdk.state.subscribe

\* a closure: what it unsubscribes, and whether the user has invoked it already
Closure(target, hook, callback, invoked) ==
  [target |-> target, hook |-> hook, callback |-> callback, invoked |-> invoked]

\* the callbacks and listeners registered in this specification
ClosureCallbacks == {"plain", "thrower"}
ClosureListeners == {"plain"}

\* const unsubscribe = sdk.lifecycle.on('beforeMount', callback)
ClosureOn ==
  \E callback \in ClosureCallbacks :
    /\ hooks' = on(hooks, "beforeMount", callback)
    /\ closures' = closures \cup {Closure("hook", "beforeMount", callback, FALSE)}
    /\ last' = Call("on", BusArg("beforeMount", callback), "OK", "none", <<>>, <<>>)
    /\ UNCHANGED <<plugins, dependencyGraph, isInitialized, isDestroyed, config, persist, tasks,
                   state, storage, listeners>>

\* const unsubscribe = sdk.state.subscribe(listener)
ClosureSubscribe ==
  \E listener \in ClosureListeners :
    /\ listeners' = setEntries(subscribe(World, listener).listeners)
    /\ closures' = closures \cup {Closure("store", "-", listener, FALSE)}
    /\ last' = Call("subscribe", Arg(listener), "OK", "none", <<>>, <<>>)
    /\ UNCHANGED <<plugins, dependencyGraph, isInitialized, isDestroyed, config, persist, tasks,
                   state, storage, hooks>>

\* unsubscribe(): the closure runs this.off(hook, callback), or this.listeners.delete(listener)
ClosureInvoke ==
  \E c \in closures :
    /\ closures' = (closures \ {c}) \cup {[c EXCEPT !.invoked = TRUE]}
    /\ IF c.target = "hook"
         THEN hooks' = off(hooks, c.hook, c.callback) /\ listeners' = listeners
         ELSE listeners' = setEntries(unsubscribe(World, c.callback).listeners) /\ hooks' = hooks
    /\ last' = Call("closure", c, "OK", "none", <<>>, <<>>)
    /\ UNCHANGED <<plugins, dependencyGraph, isInitialized, isDestroyed, config, persist, tasks,
                   state, storage>>

ClosureNext ==
  \/ ClosureOn
  \/ ClosureSubscribe
  \/ ClosureInvoke

SpecClosure == NotifyInit /\ [][ClosureNext]_vars

\* C22: the first invocation of an unsubscribe closure removes its callback from its
\* set and nothing else; an invocation of a closure that was invoked before changes
\* neither the hooks nor the store listeners, whatever was registered in between.
C22_UnsubscribeClosureIsIdempotent ==
  [][ last'.op = "closure" =>
        IF last'.arg.invoked
          THEN hooks' = hooks /\ listeners' = listeners
          ELSE IF last'.arg.target = "hook"
            THEN /\ listeners' = listeners
                 /\ DOMAIN hooks' = DOMAIN hooks
                 /\ \A h \in DOMAIN hooks :
                       hooks'[h] = IF h = last'.arg.hook
                                     THEN SelectSeq(hooks[h], LAMBDA x : x # last'.arg.callback)
                                     ELSE hooks[h]
            ELSE /\ hooks' = hooks
                 /\ listeners' = SelectSeq(listeners, LAMBDA x : x # last'.arg.callback) ]_vars

----------------------------------------------------------------------------
\* A persisting store with a listener that writes back

PersistInit ==
  /\ StoreInit
  /\ persist = TRUE

PersistSetState == SetStateOf({Update("partial", "-", p) : p \in Partials})

PersistSubscribe == SubscribeOf({Setter})

PersistUnsubscribe == UnsubscribeOf({Setter})

PersistNext ==
  \/ PersistSetState
  \/ StoreReset
  \/ PersistSubscribe
  \/ PersistUnsubscribe

SpecPersist == PersistInit /\ [][PersistNext]_vars

\* C30: with persistence on, a second store constructed with the same initial value and
\* key starts with the value the first store holds.
C30_PersistenceRoundTrips ==
  persist => loadInitialState(persist, storage).value = state.value

----------------------------------------------------------------------------
\* C31: each of the six hook types has a callback set in the hook registry in every state
\* reached by on, off, emit, clear(hook) and clear() calls.
C31_EveryHookTypeHasASet == HookTypes \subseteq DOMAIN hooks

\* the positions of the log at which entries of a kind for a hook stand
PositionsOf(log, kind, hook) == {i \in 1..Len(log) : log[i][1] = kind /\ log[i][2] = hook}

\* C32: emitAsync starts every callback registered for the hook when the emission starts
\* before it waits for any of them: each is invoked, and every invocation precedes every
\* settlement, also when a callback stays pending.
C32_EmitAsyncStartsAllBeforeWaiting ==
  [][ last'.op = "emitAsync" =>
        LET hook == last'.arg.hook
            log  == last'.calls
        IN  /\ \A i \in 1..Len(callbacksOf(World, hook)) :
                  Count(log, <<"call", hook, callbacksOf(World, hook)[i]>>) = 1
            /\ \A i \in PositionsOf(log, "call", hook) :
                  \A j \in PositionsOf(log, "settled", hook) : i < j ]_vars

\* an emission whose first callback stays pending while a later one has been started
\* and has settled
C32_Witness ==
  /\ last.op = "emitAsync"
  /\ \E i, j, k \in 1..Len(last.calls) :
        /\ i < j /\ j < k
        /\ last.calls[i] = <<"call", last.arg.hook, Slow>>
        /\ last.calls[j] = <<"call", last.arg.hook, "plain">>
        /\ last.calls[k] = <<"settled", last.arg.hook, "plain">>

----------------------------------------------------------------------------
\* every enabled plugin of ps has each declared dependency registered and enabled
EnabledHaveEnabledDependencies(ps) ==
  \A i \in 1..Len(ps) :
    ps[i].enabled =>
      \A d \in ps[i].dependencies : has(ps, d) /\ get(ps, d).enabled

\* C33: a register, unregister, enable or disable call in which no callback fails keeps
\* every enabled plugin's declared dependencies registered and enabled.
C33_EnabledPluginsHaveEnabledDependencies ==
  [][ ( /\ EnabledHaveEnabledDependencies(plugins)
        /\ last'.op \in {"register", "unregister", "enable", "disable"}
        /\ last'.cause # CallbackError )
      => EnabledHaveEnabledDependencies(plugins') ]_vars

\* C34: every declared dependency of a registered plugin names a registered plugin, and no
\* registered plugin reaches itself along declared dependencies.
C34_DependenciesRegisteredAndAcyclic ==
  \A i \in 1..Len(plugins) :
    /\ plugins[i].dependencies \subseteq registered(plugins)
    /\ ~CompletesCycle(plugins, plugins[i])

\* the unregister of a plugin that a registered plugin declares was rejected, and both
\* are still registered
C34_Witness ==
  /\ last.op = "unregister"
  /\ last.code # "OK"
  /\ has(plugins, last.arg.name)
  /\ DeclaredDependents(plugins, last.arg.name) # {}

----------------------------------------------------------------------------
\* Calls that overlap.  An async call runs until its first await when it is called, and
\* from one await to the next each time it is resumed.  tasks holds the calls the caller
\* started: the suspended ones in the order in which they were suspended, and the settled
\* ones until the caller has collected their results.  A call suspended at an await of
\* an internal promise ("tick") is resumed from the microtask queue, first in first out; a
\* call suspended in a plugin callback ("callback") is resumed whenever the callback's
\* promise settles.

\* the calls the caller keeps in flight together
MaxTasks == 2

\* a call: what was called with which argument, where it is suspended ("done": settled),
\* what it waits for, its outcome so far and the plugin callbacks it has invoked; a call
\* that loops over plugins also holds the arrays it iterates and its position in them
Task(op, arg, pc, wait, code, cause, calls) ==
  [op |-> op, arg |-> arg, pc |-> pc, wait |-> wait, code |-> code, cause |-> cause,
   calls |-> calls, at |-> 0, all |-> <<>>, sorted |-> <<>>]

Settled(task, code, cause) == [task EXCEPT !.pc = "done", !.wait = "none", !.code = code, !.cause = cause]

\* the task at position i goes to the end of the queue as t
Requeue(ts, i, t) == SubSeq(ts, 1, i - 1) \o SubSeq(ts, i + 1, Len(ts)) \o <<t>>

\* the task at position i stays where it is as t
Replace(ts, i, t) == [ts EXCEPT ![i] = t]

\* the task at position i can run now
Runnable(ts, i) ==
  /\ ts[i].pc # "done"
  /\ \/ ts[i].wait = "callback"
     \/ ts[i].wait = "tick" /\ \A j \in 1..(i - 1) : ts[j].wait # "tick"

\* this.plugins.set(plugin.name, { ...plugin }): a key the Map holds keeps its position
mapSet(ps, plugin) ==
  IF has(ps, plugin.name)
    THEN [i \in 1..Len(ps) |-> IF ps[i].name = plugin.name THEN plugin ELSE ps[i]]
    ELSE Append(ps, plugin)

\* the variables no registry call touches
RegistryFrame ==
  UNCHANGED <<isInitialized, isDestroyed, config, closures, hooks, listeners, state, storage, persist>>

\* plugins.register(plugin) is called: the has-check, then validateDependencies runs to
\* its end and register is suspended at the await of the promise it returned
RegisterStart ==
  \E plugin \in Descriptors :
    /\ Len(tasks) < MaxTasks
    /\ tasks' = Append(tasks,
         IF has(plugins, plugin.name)
           THEN Task("register", plugin, "done", "none",
                     "PLUGIN_REGISTRATION_FAILED", "PLUGIN_ALREADY_EXISTS", <<>>)
           ELSE Task("register", plugin, "validated", "tick",
                     "PENDING", validateDependencies(plugins, plugin), <<>>))
    /\ last' = Call("register", plugin, "STARTED", "none", <<>>, <<>>)
    /\ UNCHANGED <<plugins, dependencyGraph>>
    /\ RegistryFrame

\* register resumes after await this.validateDependencies(plugin): the descriptor is
\* stored, the dependents index updated and plugin.initialize() called and awaited
RegisterStore ==
  \E i \in 1..Len(tasks) :
    LET t == tasks[i]
    IN  /\ t.op = "register" /\ t.pc = "validated"
        /\ Runnable(tasks, i)
        /\ IF t.cause # "OK"
             THEN /\ tasks' = Replace(tasks, i, Settled(t, "PLUGIN_REGISTRATION_FAILED", t.cause))
                  /\ UNCHANGED <<plugins, dependencyGraph>>
             ELSE /\ plugins' = mapSet(plugins, t.arg)
                  /\ dependencyGraph' = updateDependencyGraph(dependencyGraph, t.arg)
                  /\ tasks' = IF t.arg.enabled
                                THEN Requeue(tasks, i,
                                       [t EXCEPT !.pc = "initialized", !.wait = "callback",
                                                 !.calls = << <<"initialize", t.arg.name>> >>])
                                ELSE Replace(tasks, i, Settled(t, "OK", "none"))
        /\ last' = Call("register", t.arg, "RESUMED", "none", <<>>, <<>>)
        /\ RegistryFrame

\* register resumes after await plugin.initialize(): the callback's promise was fulfilled,
\* or it was rejected and the catch block wraps the error
RegisterReturn ==
  \E i \in 1..Len(tasks) :
    \E initFails \in BOOLEAN :
      LET t == tasks[i]
      IN  /\ t.op = "register" /\ t.pc = "initialized"
          /\ Runnable(tasks, i)
          /\ tasks' = Replace(tasks, i,
                        IF initFails THEN Settled(t, "PLUGIN_REGISTRATION_FAILED", CallbackError)
                                     ELSE Settled(t, "OK", "none"))
          /\ last' = Call("register", t.arg, IF initFails THEN "PLUGIN_REGISTRATION_FAILED" ELSE "OK",
                          IF initFails THEN CallbackError ELSE "none", t.calls, <<>>)
          /\ UNCHANGED <<plugins, dependencyGraph>>
          /\ RegistryFrame

\* the caller has awaited every call it started
Collect ==
  /\ tasks # <<>>
  /\ \A i \in 1..Len(tasks) : tasks[i].pc = "done"
  /\ tasks' = <<>>
  /\ last' = Call("collect", Arg("-"), "OK", "none", <<>>, <<>>)
  /\ UNCHANGED <<plugins, dependencyGraph>>
  /\ RegistryFrame

OverlapRegisterNext ==
  \/ RegisterStart
  \/ RegisterStore
  \/ RegisterReturn
  \/ Collect

SpecOverlapRegister == NotifyInit /\ [][OverlapRegisterNext]_vars

\* C35: of the register calls for one name that overlap, at most one succeeds, at most one
\* has the initialize callback of its descriptor invoked, and the stored descriptor is the
\* one of the call that succeeded.
C35_OverlappingRegistersKeepNameUnique ==
  \A i, j \in 1..Len(tasks) :
    (i # j /\ tasks[i].op = "register" /\ tasks[j].op = "register"
           /\ tasks[i].arg.name = tasks[j].arg.name)
      => /\ ~(tasks[i].calls # <<>> /\ tasks[j].calls # <<>>)
         /\ ~(/\ tasks[i].pc = "done" /\ tasks[i].code = "OK"
              /\ tasks[j].pc = "done" /\ tasks[j].code = "OK")
         /\ (tasks[i].pc = "done" /\ tasks[i].code = "OK" /\ tasks[j].pc = "done")
               => /\ has(plugins, tasks[i].arg.name)
                  /\ get(plugins, tasks[i].arg.name) = tasks[i].arg

----------------------------------------------------------------------------
\* enable and disable calls that overlap, on a registry that holds A and its dependent B

\* the registries register, enable and disable calls leave with A and B registered
ToggleInit ==
  /\ \E a, b \in BOOLEAN :
       /\ b => a
       /\ plugins = <<Plugin("A", a, {}), Plugin("B", b, {"A"})>>
       /\ dependencyGraph = updateDependencyGraph([d \in {} |-> {}], Plugin("B", b, {"A"}))
  /\ isInitialized = FALSE
  /\ isDestroyed = FALSE
  /\ config = <<>>
  /\ hooks = on(initializeHooks([h \in {} |-> <<>>]), "error", ErrorLogger)
  /\ listeners = <<StateChangeForwarder>>
  /\ persist = FALSE
  /\ storage = NoItem
  /\ state = loadInitialState(persist, storage)
  /\ closures = {}
  /\ tasks = <<>>
  /\ last = Call("new", Arg("-"), "OK", "none", <<>>, <<>>)

\* plugins.enable(name) or plugins.disable(name) is called: it runs up to its first await.
\* A call that its guards end settles at once; otherwise the plugin's callback has been
\* called and the call is suspended at the await of what the callback returned.
ToggleStart(op) ==
  \E name \in Names :
    LET r == IF op = "enable" THEN enable(Registry, name, FALSE) ELSE disable(Registry, name, FALSE)
    IN  /\ Len(tasks) < MaxTasks
        /\ tasks' = Append(tasks,
             IF r.calls = <<>>
               THEN Task(op, Arg(name), "done", "none", r.code, r.cause, <<>>)
               ELSE Task(op, Arg(name), "called", "callback", "PENDING", "none", r.calls))
        /\ last' = Call(op, Arg(name), "STARTED", "none", <<>>, <<>>)
        /\ UNCHANGED <<plugins, dependencyGraph>>
        /\ RegistryFrame

\* plugins.enable(name) is called
EnableStart == ToggleStart("enable")

\* plugins.disable(name) is called
DisableStart == ToggleStart("disable")

\* the call resumes after await plugin.initialize() or await plugin.destroy(): the flag of
\* the plugin object is assigned, or the callback's promise was rejected and the catch
\* block wraps the error
ToggleReturn ==
  \E i \in 1..Len(tasks) :
    \E callbackFails \in BOOLEAN :
      LET t == tasks[i]
          failed == IF t.op = "enable" THEN "PLUGIN_ENABLE_FAILED" ELSE "PLUGIN_DISABLE_FAILED"
      IN  /\ t.op \in {"enable", "disable"} /\ t.pc = "called"
          /\ Runnable(tasks, i)
          /\ plugins' = IF callbackFails THEN plugins
                        ELSE setEnabled(plugins, t.arg.name, t.op = "enable")
          /\ tasks' = Replace(tasks, i,
                        IF callbackFails THEN Settled(t, failed, CallbackError)
                                         ELSE Settled(t, "OK", "none"))
          /\ last' = Call(t.op, t.arg, IF callbackFails THEN failed ELSE "OK",
                          IF callbackFails THEN CallbackError ELSE "none", t.calls, <<>>)
          /\ UNCHANGED dependencyGraph
          /\ RegistryFrame

OverlapToggleNext ==
  \/ EnableStart
  \/ DisableStart
  \/ ToggleReturn
  \/ Collect

SpecOverlapToggle == ToggleInit /\ [][OverlapToggleNext]_vars

\* once every call has settled, each enabled plugin has its dependencies enabled
EndsWithDependenciesEnabled ==
  (\A i \in 1..Len(tasks) : tasks[i].pc = "done") => EnabledHaveEnabledDependencies(plugins)

\* C37: when the enable and disable calls that overlapped have all settled, no plugin is
\* enabled while one of its dependencies is disabled, and no two of the calls have invoked
\* the same callback of the same plugin.
C37_OverlappingTogglesKeepGuards ==
  /\ EndsWithDependenciesEnabled
  /\ \A i, j \in 1..Len(tasks) :
       (i # j /\ tasks[i].op = tasks[j].op /\ tasks[i].arg = tasks[j].arg)
         => ~(tasks[i].calls # <<>> /\ tasks[j].calls # <<>>)

----------------------------------------------------------------------------
\* initialize() and destroy() calls that overlap

\* the fields of the coordinator and its components that initialize() and destroy() assign
Coordinator ==
  [plugins |-> plugins, graph |-> dependencyGraph, initialized |-> isInitialized,
   destroyed |-> isDestroyed, listeners |-> listeners, hooks |-> hooks]

\* a call suspended at pc, waiting for wait
Suspended(t, pc, wait) == [t EXCEPT !.pc = pc, !.wait = wait]

\* initialize(): the loop over config.plugins reaches index i and runs up to the next
\* await: this.plugins.register(plugin) is called and runs up to its first await, or the
\* loop is over, isInitialized is set and emitAsync('afterMount') is awaited
registerNext(m, t, cfg, i) ==
  IF i > Len(cfg)
    THEN [m |-> [m EXCEPT !.initialized = TRUE], t |-> Suspended(t, "afterMount", "tick")]
  ELSE IF has(m.plugins, cfg[i].name)
    THEN [m |-> m,
          t |-> [Suspended(t, "registered", "tick") EXCEPT
                   !.at = i, !.code = "PLUGIN_REGISTRATION_FAILED",
                   !.cause = "PLUGIN_ALREADY_EXISTS"]]
  ELSE [m |-> m,
        t |-> [Suspended(t, "validated", "tick") EXCEPT
                 !.at = i, !.code = "PENDING", !.cause = validateDependencies(m.plugins, cfg[i])]]

\* initialize() resumes at the await it was suspended at; initFails: the promise of the
\* plugin's initialize callback was rejected
initializeResume(m, t, cfg, initFails) ==
  IF t.pc = "beforeMount" THEN registerNext(m, t, cfg, 1)
  ELSE IF t.pc = "validated"
    THEN IF t.cause # "OK"
           THEN [m |-> m, t |-> [Suspended(t, "registered", "tick") EXCEPT
                                   !.code = "PLUGIN_REGISTRATION_FAILED"]]
         ELSE IF cfg[t.at].enabled
           THEN [m |-> [m EXCEPT !.plugins = mapSet(@, cfg[t.at]),
                                 !.graph = updateDependencyGraph(@, cfg[t.at])],
                 t |-> [Suspended(t, "initialized", "callback") EXCEPT
                          !.cause = "none",
                          !.calls = Append(@, <<"initialize", cfg[t.at].name>>)]]
         ELSE [m |-> [m EXCEPT !.plugins = mapSet(@, cfg[t.at]),
                               !.graph = updateDependencyGraph(@, cfg[t.at])],
               t |-> [Suspended(t, "registered", "tick") EXCEPT !.code = "OK", !.cause = "none"]]
  ELSE IF t.pc = "initialized"
    THEN [m |-> m,
          t |-> IF initFails
                  THEN [Suspended(t, "registered", "tick") EXCEPT
                          !.code = "PLUGIN_REGISTRATION_FAILED", !.cause = CallbackError]
                  ELSE [Suspended(t, "registered", "tick") EXCEPT !.code = "OK"]]
  ELSE IF t.pc = "registered"
    THEN IF t.code # "OK"
           THEN [m |-> m, t |-> Settled(t, rethrown(t.code), t.cause)]
           ELSE registerNext(m, t, cfg, t.at + 1)
  ELSE [m |-> m, t |-> Settled(t, "OK", "none")]

\* destroy(): the unregister pass reaches index k of allPlugins and runs up to the next
\* await: this.plugins.unregister(name) is called and runs up to its first await (it has
\* none when the plugin is disabled or the call is rejected), or the pass is over, the
\* listeners and hooks are cleared, the flags set and emitAsync('afterUnmount') awaited
unregisterNext(m, t, k) ==
  IF k > Len(t.all)
    THEN [m |-> [m EXCEPT !.listeners = <<>>, !.hooks = clearAll(@),
                          !.destroyed = TRUE, !.initialized = FALSE],
          t |-> Suspended(t, "afterUnmount", "tick")]
  ELSE LET r == unregister([plugins |-> m.plugins, graph |-> m.graph], t.all[k], FALSE)
       IN  IF r.calls # <<>>
             THEN [m |-> m,
                   t |-> [Suspended(t, "unregistering", "callback") EXCEPT
                            !.at = k, !.calls = @ \o r.calls]]
             ELSE [m |-> [m EXCEPT !.plugins = r.plugins, !.graph = r.graph],
                   t |-> [Suspended(t, "unregistered", "tick") EXCEPT !.at = k]]

\* destroy(): the disable pass goes on from index k of sortedPlugins up to the next await:
\* plugins that are not enabled are skipped, this.plugins.disable(name) is called for the
\* first enabled one and runs up to its first await or is rejected by its guard
disableNext(m, t, k) ==
  LET enabledAt == {j \in k..Len(t.sorted) :
                      has(m.plugins, t.sorted[j]) /\ get(m.plugins, t.sorted[j]).enabled}
  IN  IF enabledAt = {} THEN unregisterNext(m, t, 1)
      ELSE LET j == CHOOSE x \in enabledAt : \A y \in enabledAt : x <= y
               r == disable([plugins |-> m.plugins, graph |-> m.graph], t.sorted[j], FALSE)
           IN  IF r.calls = <<>>
                 THEN [m |-> m, t |-> [Suspended(t, "disableRejected", "tick") EXCEPT !.at = j]]
                 ELSE [m |-> m,
                       t |-> [Suspended(t, "disabling", "callback") EXCEPT
                                !.at = j, !.calls = @ \o r.calls]]

\* destroy() resumes at the await it was suspended at; destroyFails: the promise of the
\* plugin's destroy callback was rejected
destroyResume(m, t, destroyFails) ==
  IF t.pc = "beforeUnmount"
    THEN disableNext(m, [t EXCEPT !.all = [i \in 1..Len(m.plugins) |-> m.plugins[i].name],
                                  !.sorted = sortPluginsByDependenciesReverse(m.plugins)], 1)
  ELSE IF t.pc = "disabling"
    THEN IF destroyFails
           THEN [m |-> m, t |-> Suspended(t, "disableRejected", "tick")]
           ELSE [m |-> [m EXCEPT !.plugins = setEnabled(@, t.sorted[t.at], FALSE)],
                 t |-> Suspended(t, "disabled", "tick")]
  ELSE IF t.pc = "disabled" THEN disableNext(m, t, t.at + 1)
  ELSE IF t.pc = "disableRejected"
    THEN [m |-> m,
          t |-> [Suspended(t, "forcing", "callback") EXCEPT
                   !.calls = Append(@, <<"destroy", t.sorted[t.at]>>)]]
  ELSE IF t.pc = "forcing"
    THEN IF destroyFails
           THEN [m |-> m, t |-> Settled(t, rethrown("DESTRUCTION_FAILED"), CallbackError)]
           ELSE disableNext([m EXCEPT !.plugins = setEnabled(@, t.sorted[t.at], FALSE)],
                            t, t.at + 1)
  ELSE IF t.pc = "unregistering"
    THEN IF destroyFails
           THEN [m |-> m, t |-> Suspended(t, "unregistered", "tick")]
           ELSE [m |-> [m EXCEPT !.plugins = delete(@, t.all[t.at]),
                                 !.graph = graphDelete(@, t.all[t.at])],
                 t |-> Suspended(t, "unregistered", "tick")]
  ELSE IF t.pc = "unregistered" THEN unregisterNext(m, t, t.at + 1)
  ELSE [m |-> m, t |-> Settled(t, "OK", "none")]

\* the coordinator takes the values m
Becomes(m) ==
  /\ plugins' = m.plugins
  /\ dependencyGraph' = m.graph
  /\ isInitialized' = m.initialized
  /\ isDestroyed' = m.destroyed
  /\ listeners' = m.listeners
  /\ hooks' = m.hooks

\* sdk.initialize() is called: the guards, then emitAsync('beforeMount') is awaited
InitializeStart ==
  /\ Len(tasks) < MaxTasks
  /\ \A i \in 1..Len(tasks) : tasks[i].op # "initialize"
  /\ tasks' = Append(tasks,
       IF initializeGuard(isInitialized, isDestroyed) # "OK"
         THEN Task("initialize", Arg("-"), "done", "none",
                   initializeGuard(isInitialized, isDestroyed), "none", <<>>)
         ELSE Task("initialize", Arg("-"), "beforeMount", "tick", "PENDING", "none", <<>>))
  /\ last' = Call("initialize", Arg("-"), "STARTED", "none", <<>>, <<>>)
  /\ UNCHANGED <<plugins, dependencyGraph, isInitialized, isDestroyed, listeners, hooks>>
  /\ UNCHANGED <<config, closures, state, storage, persist>>

\* sdk.destroy() is called: the guard, then emitAsync('beforeUnmount') is awaited
DestroyStart ==
  /\ Len(tasks) < MaxTasks
  /\ \A i \in 1..Len(tasks) : tasks[i].op # "destroy"
  /\ tasks' = Append(tasks,
       IF destroyGuard(isDestroyed)
         THEN Task("destroy", Arg("-"), "done", "none", "OK", "none", <<>>)
         ELSE Task("destroy", Arg("-"), "beforeUnmount", "tick", "PENDING", "none", <<>>))
  /\ last' = Call("destroy", Arg("-"), "STARTED", "none", <<>>, <<>>)
  /\ UNCHANGED <<plugins, dependencyGraph, isInitialized, isDestroyed, listeners, hooks>>
  /\ UNCHANGED <<config, closures, state, storage, persist>>

\* a suspended initialize() runs from the await it is suspended at to the next
InitializeResume ==
  \E i \in 1..Len(tasks) :
    /\ tasks[i].op = "initialize"
    /\ Runnable(tasks, i)
    /\ \E initFails \in (IF tasks[i].pc = "initialized" THEN BOOLEAN ELSE {FALSE}) :
        \E r \in {initializeResume(Coordinator, tasks[i], config, initFails)} :
          /\ Becomes(r.m)
          /\ tasks' = IF r.t.pc = "done" THEN Replace(tasks, i, r.t) ELSE Requeue(tasks, i, r.t)
          /\ last' = Call("initialize", Arg("-"), r.t.code, r.t.cause, r.t.calls, <<>>)
    /\ UNCHANGED <<config, closures, state, storage, persist>>

\* a suspended destroy() runs from the await it is suspended at to the next
DestroyResume ==
  \E i \in 1..Len(tasks) :
    /\ tasks[i].op = "destroy"
    /\ Runnable(tasks, i)
    /\ \E destroyFails \in (IF tasks[i].pc \in {"disabling", "forcing", "unregistering"}
                              THEN BOOLEAN ELSE {FALSE}) :
        \E r \in {destroyResume(Coordinator, tasks[i], destroyFails)} :
          /\ Becomes(r.m)
          /\ tasks' = IF r.t.pc = "done" THEN Replace(tasks, i, r.t) ELSE Requeue(tasks, i, r.t)
          /\ last' = Call("destroy", Arg("-"), r.t.code, r.t.cause, r.t.calls, <<>>)
    /\ UNCHANGED <<config, closures, state, storage, persist>>

OverlapLifecycleNext ==
  \/ InitializeStart
  \/ DestroyStart
  \/ InitializeResume
  \/ DestroyResume
  \/ Collect

SpecOverlapLifecycle == Init /\ [][OverlapLifecycleNext]_vars

\* C36: the initialized and the destroyed flag are never both true, and once destroy()
\* has set the destroyed flag no plugin is added to the registry, also when initialize()
\* and destroy() overlap.
C36_DestroyedExcludesInitialized ==
  [][ /\ ~(isInitialized' /\ isDestroyed')
      /\ isDestroyed => registered(plugins') \subseteq registered(plugins) ]_vars

----------------------------------------------------------------------------
\* C38: one destroy() call invokes the destroy callback of each plugin that was enabled at
\* most once, and that of no other plugin, whether the plugin's disable succeeded, was
\* rejected by the registry guard or failed because the callback threw.
C38_DestroyInvokesCallbackAtMostOnce ==
  [][ last'.op = "destroy" =>
        \A n \in Names :
          Count(last'.calls, <<"destroy", n>>)
            <= (IF has(plugins, n) /\ get(plugins, n).enabled THEN 1 ELSE 0) ]_vars

----------------------------------------------------------------------------
\* C39: an initialize() that follows one that failed in a plugin's registration or
\* initialize callback succeeds when no plugin callback fails during it: every configured
\* plugin is registered and the initialized flag is set.
C39_FailedInitializeCanBeRetried ==
  [][ ( /\ last.op = "initialize"
        /\ last.code = "PLUGIN_REGISTRATION_FAILED"
        /\ last'.op = "initialize"
        /\ last'.cause # CallbackError )
      => /\ last'.code = "OK"
         /\ isInitialized'
         /\ \A i \in 1..Len(config) : has(plugins', config[i].name) ]_vars

----------------------------------------------------------------------------
\* A store whose subscribers include one that calls setState while it is notified

ReentrantSetState == SetStateOf({Update("partial", "-", p) : p \in Partials})

ReentrantSubscribe == SubscribeOf({Setter, "plain"})

ReentrantUnsubscribe == UnsubscribeOf({Setter, "plain"})

ReentrantNext ==
  \/ ReentrantSetState
  \/ ReentrantSubscribe
  \/ ReentrantUnsubscribe

SpecReentrant == NotifyInit /\ [][ReentrantNext]_vars

\* the notifications of a call that went to the listener, in order
DeliveredTo(log, listener) == SelectSeq(log, LAMBDA e : e[1] = "notify" /\ e[2] = listener)

\* C40: when the outermost setState returns, the last state delivered to every subscriber
\* it notified is the state the store holds, and each subscriber was given the states in
\* the order in which they were set: every delivery's prevState is the state of the
\* delivery before it.
C40_SubscribersEndConsistent ==
  [][ last'.op = "setState" =>
        \A l \in {Setter, "plain", StateChangeForwarder} :
          LET d == DeliveredTo(last'.calls, l)
          IN  /\ d # <<>> => d[Len(d)][3] = state'
              /\ \A i \in 1..(Len(d) - 1) : d[i + 1][4] = d[i][3] ]_vars

====
